---- MODULE Spec2Model ----
(***************************************************************************)
(* Scan pipeline, score engine and progress tracker of the stock           *)
(* opportunity engine (app/stock_mvp).                                     *)
(*                                                                         *)
(* Floating point quantities are carried as fixed-point integers with four *)
(* decimal digits (FP units per 1.0); round(x, 2) rounds them to a         *)
(* multiple of FP / 100.                                                   *)
(***************************************************************************)
EXTENDS Integers, Sequences, FiniteSets, TLC

VARIABLES
    rulesFile,        \* content of config/rules.yaml: MissingFile or a rules record
    runs,             \* table runs: sequence of rows, the row id is the index
    recommendations,  \* table recommendations: run id -> sequence of rows
    status,           \* scan_status._status, the shared ScanProgress
    pc,               \* per thread: position inside run_scan / _run_scan_safe
    frame,            \* per thread: the local variables of run_scan (rules,
                      \* run_id, stocks, events, rec_rows, summary, the live
                      \* provider's stale_symbols and loop index i), the
                      \* exception in flight (exc), the exception bound by the
                      \* except clause (caught) and the number of load_rules
                      \* calls of the current run_scan (loads)
    lastWrite,        \* per thread: last write the thread made to the tracker
    arg,              \* input of the pure function under check
    res               \* its result

vars == <<rulesFile, runs, recommendations, status, pc, frame, lastWrite, arg, res>>

(***************************************************************************)
(* Numeric helpers                                                         *)
(***************************************************************************)
FP == 100 * 100

Max(a, b) == IF a >= b THEN a ELSE b

Min(a, b) == IF a <= b THEN a ELSE b

\* a / b rounded to the nearest integer (b > 0)
RoundDiv(a, b) == (2 * a + b) \div (2 * b)

\* utils.math_utils.clamp
clamp(x, lo, hi) == Max(lo, Min(hi, x))

\* round(x, 2) on a fixed-point value
round2(x) == RoundDiv(x, FP \div 100) * (FP \div 100)

abs(x) == IF x < 0 THEN -x ELSE x

\* the subsequence of s whose elements are in the set keep
SelectSeqOrd(s, keep) ==
    LET kept(x) == x \in keep
    IN  SelectSeq(s, kept)

(***************************************************************************)
(* core/rules.py                                                           *)
(***************************************************************************)
positive_weight_sum(r) ==
    r.weights.profit_trend + r.weights.valuation
        + r.weights.future_events + r.weights.quality

\* validate_rules: TRUE iff no RuleValidationError is raised.  The required
\* keys are present in every rules record of the model.
validate_rules(r) ==
    /\ ~(positive_weight_sum(r) <= 0)
    /\ ~(r.weights.risk < 0)

\* load_rules: TRUE iff it returns (the file exists and validates)
MissingFile == [missing |-> TRUE]

load_rules_ok(file) ==
    /\ file # MissingFile
    /\ validate_rules(file)

(***************************************************************************)
(* services/pipeline.py: the two filters                                   *)
(***************************************************************************)
\* year-over-year profit growth in percent (fixed point), as the quality
\* filter computes it
filter_yoy(s) ==
    IF s.profit_prev_ttm_cr > 0
    THEN RoundDiv((s.profit_ttm_cr - s.profit_prev_ttm_cr) * 100 * FP,
                  abs(s.profit_prev_ttm_cr))
    ELSE IF s.profit_ttm_cr > 0 THEN 100 * FP ELSE 0

\* the universe test with both market-cap bounds exclusive
universe_keeps_exclusive(s, r) ==
    /\ ~(s.market_cap_cr <= r.universe.min_market_cap_cr
            \/ s.market_cap_cr >= r.universe.max_market_cap_cr)
    /\ ~(r.universe.exchanges # {} /\ s.exchange \notin r.universe.exchanges)
    /\ ~(r.universe.sectors_allowlist # {}
            /\ s.sector \notin r.universe.sectors_allowlist)

universe_keeps(s, r) ==
    /\ ~(s.market_cap_cr < r.universe.min_market_cap_cr
            \/ s.market_cap_cr > r.universe.max_market_cap_cr)
    /\ ~(r.universe.exchanges # {} /\ s.exchange \notin r.universe.exchanges)
    /\ ~(r.universe.sectors_allowlist # {}
            /\ s.sector \notin r.universe.sectors_allowlist)

\* the quality test rejecting a PE equal to max_pe as well
quality_keeps_pe_exclusive(s, r) ==
    /\ ~(r.filters.exclude_esm /\ s.esm_flag)
    /\ ~(r.filters.exclude_loss_making /\ s.profit_ttm_cr <= 0)
    /\ ~(s.profit_ttm_cr < r.filters.min_profit_ttm_cr)
    /\ ~(filter_yoy(s) < r.filters.min_profit_yoy_growth_pct * FP)
    /\ ~(s.pe >= r.filters.max_pe)

quality_keeps(s, r) ==
    /\ ~(r.filters.exclude_esm /\ s.esm_flag)
    /\ ~(r.filters.exclude_loss_making /\ s.profit_ttm_cr <= 0)
    /\ ~(s.profit_ttm_cr < r.filters.min_profit_ttm_cr)
    /\ ~(filter_yoy(s) < r.filters.min_profit_yoy_growth_pct * FP)
    /\ ~(s.pe > r.filters.max_pe)

_apply_universe_filters(ss, r) ==
    LET keeps(s) == universe_keeps(s, r)
    IN  SelectSeq(ss, keeps)

\* the quality filter returning what it keeps in reverse order
_apply_quality_filters_reversed(ss, r) ==
    LET keeps(s) == quality_keeps(s, r)
        kept == SelectSeq(ss, keeps)
    IN  [k \in 1..Len(kept) |-> kept[Len(kept) + 1 - k]]

_apply_quality_filters(ss, r) ==
    LET keeps(s) == quality_keeps(s, r)
    IN  SelectSeq(ss, keeps)

(***************************************************************************)
(* services/scoring.py: ScoreEngine                                        *)
(***************************************************************************)
\* events_by_symbol.get(stock.symbol, [])
symbol_events(sym, evs) ==
    LET mine(e) == e.symbol = sym
    IN  SelectSeq(evs, mine)

score_yoy(s) ==
    IF s.profit_prev_ttm_cr <= 0
    THEN IF s.profit_ttm_cr > 0 THEN 100 * FP ELSE 0
    ELSE RoundDiv((s.profit_ttm_cr - s.profit_prev_ttm_cr) * 100 * FP,
                  abs(s.profit_prev_ttm_cr))

increasing_steps(s) ==
    Cardinality({i \in 2..4 : s.profit_q[i] >= s.profit_q[i - 1]})

_profit_trend_score(s) ==
    LET consistency_score == RoundDiv(increasing_steps(s) * 100 * FP, 3)
        growth_score == clamp(score_yoy(s), -50 * FP, 100 * FP)
        growth_score_normalized == RoundDiv((growth_score + 50 * FP) * 100, 150)
    IN  clamp(RoundDiv(7 * growth_score_normalized + 3 * consistency_score, 10),
              0, 100 * FP)

_valuation_score(s, r) ==
    LET max_pe == r.filters.max_pe
    IN  IF s.pe <= 0 THEN 100 * FP
        ELSE IF s.pe <= 20 THEN 100 * FP
        ELSE IF s.pe <= max_pe
             THEN clamp(100 * FP - RoundDiv((s.pe - 20) * 40 * FP,
                                            Max(1, max_pe - 20)),
                        45 * FP, 100 * FP)
             ELSE clamp(45 * FP - (s.pe - max_pe) * 2 * FP, 0, 45 * FP)

\* r.event_weights.get(event_type, 0)
event_base(r, etype) ==
    IF etype \in DOMAIN r.event_weights THEN r.event_weights[etype] ELSE 0

\* the recency factor without its floor of 0.35
recency_unfloored(e) ==
    LET age_days == Max(0, e.age_days)
    IN  Min(FP - RoundDiv(age_days * FP, 90), FP)

recency(e) ==
    LET age_days == Max(0, e.age_days)
    IN  clamp(FP - RoundDiv(age_days * FP, 90), (35 * FP) \div 100, FP)

\* raw += base * recency over the events whose base is positive
event_raw(evs, r) ==
    LET term(e) == IF event_base(r, e.event_type) <= 0 THEN 0
                   ELSE event_base(r, e.event_type) * recency(e)
        raw[k \in 0..Len(evs)] ==
            IF k = 0 THEN 0 ELSE raw[k - 1] + term(evs[k])
    IN  raw[Len(evs)]

_future_event_score(evs, r) ==
    IF evs = <<>> THEN 0 ELSE clamp(event_raw(evs, r), 0, 100 * FP)

_future_event_reasons(evs, r) ==
    IF evs = <<>> THEN <<"No recent qualifying events">>
    ELSE IF \E i \in 1..Len(evs) : event_base(r, evs[i].event_type) > 0
         THEN <<"Recent events">>
         ELSE <<>>

_quality_score(s) ==
    LET promoter_score == clamp(RoundDiv(s.promoter_holding_pct * 100 * FP, 75),
                                0, 100 * FP)
        hni_score == clamp(RoundDiv(s.hni_net_buying_cr * 100 * FP, 20),
                           0, 100 * FP)
        pledge_penalty == clamp(RoundDiv(s.pledge_pct * 100 * FP, 50),
                                0, 100 * FP)
    IN  clamp(RoundDiv(55 * promoter_score + 45 * hni_score
                          - 35 * pledge_penalty, 100),
              0, 100 * FP)

\* the penalties without the one for a sharp profit drop
risk_sum_without_drop(s, r) ==
    (IF s.esm_flag THEN 50 * FP ELSE 0)
    + (IF s.governance_flag THEN 35 * FP ELSE 0)
    + (IF s.pledge_pct > r.filters.max_pledge_pct THEN 25 * FP ELSE 0)

risk_sum(s, r) ==
    (IF s.esm_flag THEN 50 * FP ELSE 0)
    + (IF s.governance_flag THEN 35 * FP ELSE 0)
    + (IF s.pledge_pct > r.filters.max_pledge_pct THEN 25 * FP ELSE 0)
    + (IF s.profit_prev_ttm_cr > 0 /\ score_yoy(s) < -30 * FP
       THEN 30 * FP ELSE 0)

_risk_penalty_unclamped(s, r) == risk_sum(s, r)

_risk_penalty(s, r) == clamp(risk_sum(s, r), 0, 100 * FP)

\* what the five private methods return to score for one snapshot, before
\* the breakdown rounds them
score_locals(s, evs, r) ==
    [profit_trend |-> _profit_trend_score(s),
     valuation |-> _valuation_score(s, r),
     future_events |-> _future_event_score(symbol_events(s.symbol, evs), r),
     quality |-> _quality_score(s),
     risk_penalty |-> _risk_penalty(s, r)]

\* score_one with the risk term divided by the positive weight sum as well
score_one_risk_normalised(s, evs, r) ==
    LET sym_events == symbol_events(s.symbol, evs)
        f == score_locals(s, evs, r)
        final_score ==
            clamp(RoundDiv(f.profit_trend * r.weights.profit_trend
                              + f.valuation * r.weights.valuation
                              + f.future_events * r.weights.future_events
                              + f.quality * r.weights.quality
                              - f.risk_penalty * r.weights.risk,
                           positive_weight_sum(r)),
                  0, 100 * FP)
    IN  [symbol |-> s.symbol,
         exchange |-> s.exchange,
         sector |-> s.sector,
         market_cap_cr |-> s.market_cap_cr,
         pe |-> s.pe,
         final_score |-> round2(final_score),
         score_breakdown |->
            [profit_trend |-> round2(f.profit_trend),
             valuation |-> round2(f.valuation),
             future_events |-> round2(f.future_events),
             quality |-> round2(f.quality),
             risk_penalty |-> round2(f.risk_penalty)],
         reasons |-> _future_event_reasons(sym_events, r),
         event_count |-> Len(sym_events)]

\* the ScoredStock built for one snapshot
score_one(s, evs, r) ==
    LET sym_events == symbol_events(s.symbol, evs)
        profit_score == _profit_trend_score(s)
        valuation_score == _valuation_score(s, r)
        event_score == _future_event_score(sym_events, r)
        quality_score == _quality_score(s)
        risk_penalty == _risk_penalty(s, r)
        weighted_positive ==
            RoundDiv(profit_score * r.weights.profit_trend
                        + valuation_score * r.weights.valuation
                        + event_score * r.weights.future_events
                        + quality_score * r.weights.quality,
                     positive_weight_sum(r))
        weighted_risk == RoundDiv(risk_penalty * r.weights.risk, 100)
        final_score == clamp(weighted_positive - weighted_risk, 0, 100 * FP)
    IN  [symbol |-> s.symbol,
         exchange |-> s.exchange,
         sector |-> s.sector,
         market_cap_cr |-> s.market_cap_cr,
         pe |-> s.pe,
         final_score |-> round2(final_score),
         score_breakdown |->
            [profit_trend |-> round2(profit_score),
             valuation |-> round2(valuation_score),
             future_events |-> round2(event_score),
             quality |-> round2(quality_score),
             risk_penalty |-> round2(risk_penalty)],
         reasons |-> _future_event_reasons(sym_events, r),
         event_count |-> Len(sym_events)]

\* a descending sort that reverses the input order of equal scores
sorted_desc_unstable(scored) ==
    LET n == Len(scored)
        place(i) ==
            1 + Cardinality({j \in 1..n :
                    \/ scored[j].final_score > scored[i].final_score
                    \/ /\ scored[j].final_score = scored[i].final_score
                       /\ j > i})
    IN  [k \in 1..n |-> scored[CHOOSE i \in 1..n : place(i) = k]]

\* sorted(scored, key=final_score, reverse=True): descending and stable, so
\* the place of an element is one more than the number of elements that
\* beat it or tie with it from an earlier position
sorted_desc(scored) ==
    LET n == Len(scored)
        place(i) ==
            1 + Cardinality({j \in 1..n :
                    \/ scored[j].final_score > scored[i].final_score
                    \/ /\ scored[j].final_score = scored[i].final_score
                       /\ j < i})
    IN  [k \in 1..n |-> scored[CHOOSE i \in 1..n : place(i) = k]]

\* ScoreEngine(r).score(ss, evs)
score(ss, evs, r) ==
    sorted_desc([i \in 1..Len(ss) |-> score_one(ss[i], evs, r)])

(***************************************************************************)
(* Data of the pipeline model                                              *)
(***************************************************************************)
\* the threads that execute a scan, each one invocation of run_scan: a
\* synchronous caller (a trigger route of main.py, cli.py) and a daemon
\* thread started by run_scan_background, which ends with its scan
Threads == {"sync", "bg"}

EventWeights == [large_order |-> 30, acquisition |-> 40, partnership |-> 0]

RulesA ==
    [data_provider |-> [type |-> "mock"],
     universe |-> [min_market_cap_cr |-> 50, max_market_cap_cr |-> 50000,
                   exchanges |-> {}, sectors_allowlist |-> {}],
     filters |-> [exclude_esm |-> TRUE, exclude_loss_making |-> TRUE,
                  min_profit_ttm_cr |-> 1, min_profit_yoy_growth_pct |-> 5,
                  max_pe |-> 60, max_pledge_pct |-> 40],
     weights |-> [profit_trend |-> 35, valuation |-> 20, future_events |-> 25,
                  quality |-> 10, risk |-> 10],
     event_weights |-> EventWeights,
     ui |-> [max_recommendations_per_run |-> 2, is_int |-> TRUE]]

\* live provider, stricter PE limit, NSE only, a negative top-N
RulesB ==
    [RulesA EXCEPT !.data_provider.type = "india_live",
                   !.universe.exchanges = {"NSE"},
                   !.filters.max_pe = 30,
                   !.ui.max_recommendations_per_run = -1]

\* ui.max_recommendations_per_run is not a number: int() raises ValueError
RulesC == [RulesA EXCEPT !.ui.is_int = FALSE]

\* rejected by validate_rules: the positive weights sum to 0
RulesInvalid ==
    [RulesA EXCEPT !.weights = [profit_trend |-> 0, valuation |-> 0,
                                future_events |-> 0, quality |-> 0, risk |-> 10]]

RulesTexts == {RulesA, RulesB, RulesC, RulesInvalid}

StockA ==
    [symbol |-> "AAA", exchange |-> "NSE", sector |-> "Pharma",
     market_cap_cr |-> 1200, pe |-> 15,
     profit_ttm_cr |-> 52, profit_prev_ttm_cr |-> 40,
     profit_q |-> <<10, 12, 14, 16>>,
     promoter_holding_pct |-> 60, pledge_pct |-> 0, hni_net_buying_cr |-> 5,
     esm_flag |-> FALSE, governance_flag |-> FALSE]

StockB ==
    [symbol |-> "BBB", exchange |-> "BSE", sector |-> "IT",
     market_cap_cr |-> 800, pe |-> 45,
     profit_ttm_cr |-> 30, profit_prev_ttm_cr |-> 20,
     profit_q |-> <<9, 8, 7, 6>>,
     promoter_holding_pct |-> 45, pledge_pct |-> 45, hni_net_buying_cr |-> 0,
     esm_flag |-> FALSE, governance_flag |-> TRUE]

StockC ==
    [symbol |-> "CCC", exchange |-> "NSE", sector |-> "Auto",
     market_cap_cr |-> 300, pe |-> 25,
     profit_ttm_cr |-> 24, profit_prev_ttm_cr |-> 0,
     profit_q |-> <<6, 6, 6, 6>>,
     promoter_holding_pct |-> 75, pledge_pct |-> 10, hni_net_buying_cr |-> 25,
     esm_flag |-> FALSE, governance_flag |-> FALSE]

\* fails the quality filter (ESM flag, shrinking profit)
StockD ==
    [symbol |-> "DDD", exchange |-> "NSE", sector |-> "IT",
     market_cap_cr |-> 500, pe |-> 10,
     profit_ttm_cr |-> 10, profit_prev_ttm_cr |-> 20,
     profit_q |-> <<4, 3, 2, 1>>,
     promoter_holding_pct |-> 30, pledge_pct |-> 0, hni_net_buying_cr |-> 0,
     esm_flag |-> TRUE, governance_flag |-> FALSE]

\* fails the universe filter (market cap below the minimum)
StockE ==
    [symbol |-> "EEE", exchange |-> "NSE", sector |-> "Pharma",
     market_cap_cr |-> 20, pe |-> 12,
     profit_ttm_cr |-> 8, profit_prev_ttm_cr |-> 4,
     profit_q |-> <<2, 2, 2, 2>>,
     promoter_holding_pct |-> 50, pledge_pct |-> 0, hni_net_buying_cr |-> 1,
     esm_flag |-> FALSE, governance_flag |-> FALSE]

\* what provider.get_stock_snapshots may return
SnapshotLists ==
    {<<>>, <<StockA, StockB, StockC, StockD, StockE>>, <<StockC, StockA>>}

EventA == [symbol |-> "AAA", event_type |-> "large_order", age_days |-> 10]

EventB == [symbol |-> "CCC", event_type |-> "acquisition", age_days |-> 120]

EventC == [symbol |-> "CCC", event_type |-> "partnership", age_days |-> -2]

\* what provider.get_recent_events may return
EventLists == {<<>>, <<EventA, EventB, EventC>>}

\* the symbols file of the live provider
Symbols == <<"AAA", "CCC">>

NoRules == [none |-> TRUE]

NoSummary == [none |-> TRUE]

(***************************************************************************)
(* services/scan_status.py: the progress tracker                           *)
(***************************************************************************)
ScanProgress ==
    [running |-> FALSE, phase |-> "", current |-> 0, total |-> 0,
     symbol |-> "", message |-> <<"">>]

start_scan(st, total) ==
    [running |-> TRUE, phase |-> "starting", current |-> 0, total |-> total,
     symbol |-> "", message |-> <<"Starting scan of", total>>]

update_scan(st, phase, current, symbol, message) ==
    [st EXCEPT !.phase = phase, !.current = current, !.symbol = symbol,
               !.message = message]

finish_scan(st, message) ==
    [st EXCEPT !.running = FALSE, !.phase = "done", !.current = st.total,
               !.message = message]

\* ScanProgress.to_dict()["pct"]
pct(st) == RoundDiv(st.current * 100, Max(st.total, 1))

(***************************************************************************)
(* core/db.py: runs and recommendations                                    *)
(***************************************************************************)
\* the row create_run inserts; the id is the position in the table
new_run_row(run_type, rules_snapshot) ==
    [run_type |-> run_type, status |-> "running",
     rules_snapshot |-> rules_snapshot, summary |-> NoSummary,
     error_text |-> ""]

complete_run(tbl, id, sm) ==
    [tbl EXCEPT ![id].status = "completed", ![id].summary = sm]

\* a fail_run whose update never reaches the table
fail_run_lost(tbl, id, error_text) == tbl

fail_run(tbl, id, error_text) ==
    [tbl EXCEPT ![id].status = "failed", ![id].error_text = error_text]

\* an insert whose rows never reach the table (no commit)
insert_recommendations_lost(tbl, id, rows) == tbl

insert_recommendations(tbl, id, rows) ==
    [tbl EXCEPT ![id] = @ \o [i \in 1..Len(rows) |-> [rows[i] EXCEPT !.run_id = id]]]

(***************************************************************************)
(* services/pipeline.py: PipelineService.run_scan                          *)
(***************************************************************************)
run_type_of(t) == IF t = "bg" THEN "scheduled_full_scan" ELSE "manual"

\* a cut that keeps the right number of elements but skips the best one
top_slice_skipping(scored, max_n) ==
    LET k == IF max_n >= 0 THEN Min(max_n, Len(scored))
             ELSE Max(0, Len(scored) + max_n)
    IN  IF k < Len(scored) THEN SubSeq(scored, 2, k + 1) ELSE SubSeq(scored, 1, k)

\* scored[:max_n], Python slice semantics
top_slice(scored, max_n) ==
    IF max_n >= 0 THEN SubSeq(scored, 1, Min(max_n, Len(scored)))
    ELSE SubSeq(scored, 1, Max(0, Len(scored) + max_n))

build_rec_rows(top) ==
    [idx \in 1..Len(top) |->
        [run_id |-> 0, rank |-> idx, symbol |-> top[idx].symbol,
         final_score |-> top[idx].final_score,
         score_breakdown |-> top[idx].score_breakdown,
         reasons |-> top[idx].reasons,
         event_count |-> top[idx].event_count]]

\* rec_rows of a scan over stocks ss and events evs under rules r
scan_rec_rows(ss, evs, r) ==
    LET universe == _apply_universe_filters(ss, r)
        passed == _apply_quality_filters(universe, r)
        scored == score(passed, evs, r)
    IN  build_rec_rows(top_slice(scored, r.ui.max_recommendations_per_run))

scan_summary(id, run_type, ss, r, rows) ==
    LET universe == _apply_universe_filters(ss, r)
        passed == _apply_quality_filters(universe, r)
    IN  [run_id |-> id, run_type |-> run_type, universe_size |-> Len(ss),
         eligible_universe |-> Len(universe), passed_filters |-> Len(passed),
         recommended_count |-> Len(rows)]

NoFrame ==
    [rules |-> NoRules, run_id |-> 0, stocks |-> <<>>, events |-> <<>>,
     rec_rows |-> <<>>, summary |-> NoSummary, stale |-> <<>>, i |-> 0,
     exc |-> "", caught |-> "", loads |-> 0]

NoWrite == [op |-> "none", running |-> FALSE, phase |-> "", message |-> <<"">>]

InScan == {"create_run", "update_fetching_data", "get_stock_snapshots",
           "live_msg", "live_fetch", "live_prices", "fetching_events",
           "scoring", "insert_recommendations", "complete_run", "finish_done",
           "return", "fail_run", "finish_failed"}

Goto(t, label) == pc' = [pc EXCEPT ![t] = label]

\* the tracker write made by thread t
Write(t, op, st) ==
    /\ status' = st
    /\ lastWrite' = [lastWrite EXCEPT ![t] =
          [op |-> op, running |-> st.running, phase |-> st.phase,
           message |-> st.message]]

\* an exception raised inside the try block of run_scan reaches its except
\* clause, which binds it as exc
RaiseInTry(t, msg) ==
    /\ frame' = [frame EXCEPT ![t] =
          [NoFrame EXCEPT !.run_id = frame[t].run_id, !.loads = frame[t].loads,
                          !.exc = msg, !.caught = msg]]
    /\ Goto(t, "fail_run")

\* what is left of a frame when run_scan is left: the locals are gone
Left(f, msg) ==
    [NoFrame EXCEPT !.run_id = f.run_id, !.caught = f.caught, !.exc = msg,
                    !.loads = f.loads]

\* an exception that leaves run_scan
Propagate(t, msg) ==
    /\ frame' = [frame EXCEPT ![t] = Left(frame[t], msg)]
    /\ Goto(t, "raised")

\* a caller invokes run_scan (trigger routes, cli), or run_scan_background
\* starts the worker thread, which invokes it: rules = load_rules()
scan_begin(t) ==
    /\ pc[t] = "idle"
    /\ lastWrite' = [lastWrite EXCEPT ![t] = NoWrite]
    /\ IF load_rules_ok(rulesFile)
       THEN /\ frame' = [frame EXCEPT ![t] =
                   [NoFrame EXCEPT !.rules = rulesFile, !.loads = 1]]
            /\ Goto(t, "create_run")
       ELSE /\ frame' = [frame EXCEPT ![t] =
                   [NoFrame EXCEPT !.exc = "RuleValidationError", !.loads = 1]]
            /\ Goto(t, "raised")
    /\ UNCHANGED <<rulesFile, runs, recommendations, status, arg, res>>

\* a run_scan that goes on to the provider without the run row
scan_create_run_skipped(t, ok) ==
    /\ pc[t] = "create_run"
    /\ ok
    /\ Goto(t, "update_fetching_data")
    /\ UNCHANGED <<rulesFile, runs, recommendations, status, frame, lastWrite,
                   arg, res>>

\* provider = build_provider(rules); run_id = db.create_run(run_type, rules)
scan_create_run(t, ok) ==
    /\ pc[t] = "create_run"
    /\ IF ok
       THEN /\ runs' = Append(runs, new_run_row(run_type_of(t), frame[t].rules))
            /\ recommendations' = Append(recommendations, <<>>)
            /\ frame' = [frame EXCEPT ![t].run_id = Len(runs) + 1]
            /\ Goto(t, "update_fetching_data")
       ELSE /\ Propagate(t, "create_run: database is locked")
            /\ UNCHANGED <<runs, recommendations>>
    /\ UNCHANGED <<rulesFile, status, lastWrite, arg, res>>

\* scan_status.update_scan("fetching_data", 0, message="Loading stock data...")
scan_update_fetching_data(t) ==
    /\ pc[t] = "update_fetching_data"
    /\ Write(t, "update_scan",
             update_scan(status, "fetching_data", 0, "", <<"Loading stock data...">>))
    /\ Goto(t, "get_stock_snapshots")
    /\ UNCHANGED <<rulesFile, runs, recommendations, frame, arg, res>>

\* MockDataProvider.get_stock_snapshots: reads the sample file; returns the
\* rows or raises (file missing, a field that does not parse)
mock_get_stock_snapshots(t) ==
    /\ pc[t] = "get_stock_snapshots"
    /\ frame[t].rules.data_provider.type # "india_live"
    /\ \/ /\ \E ss \in SnapshotLists : frame' = [frame EXCEPT ![t].stocks = ss]
          /\ Goto(t, "fetching_events")
       \/ RaiseInTry(t, "provider call failed")
    /\ UNCHANGED <<rulesFile, runs, recommendations, status, lastWrite, arg, res>>

\* the order-preserving sublists of the symbols file: the symbols without a
\* fresh cache entry
StaleChoices ==
    {SelectSeqOrd(Symbols, keep) : keep \in SUBSET {Symbols[i] : i \in 1..Len(Symbols)}}

\* IndiaLiveProvider.get_stock_snapshots, phase 1: start_scan(len(symbols)),
\* then db.get_cached_fundamentals, which returns or raises
live_start_scan(t, ok) ==
    /\ pc[t] = "get_stock_snapshots"
    /\ frame[t].rules.data_provider.type = "india_live"
    /\ Write(t, "start_scan", start_scan(status, Len(Symbols)))
    /\ IF ok
       THEN \E st \in StaleChoices :
                 /\ frame' = [frame EXCEPT ![t].stale = st]
                 /\ Goto(t, IF st # <<>> THEN "live_msg" ELSE "live_prices")
       ELSE RaiseInTry(t, "database is locked")
    /\ UNCHANGED <<rulesFile, runs, recommendations, arg, res>>

\* update_scan("fetching_fundamentals", 0, message=...) before the loop
live_fetching_msg(t) ==
    /\ pc[t] = "live_msg"
    /\ Write(t, "update_scan",
             update_scan(status, "fetching_fundamentals", 0, "",
                         <<"Fetching fundamentals for", Len(frame[t].stale)>>))
    /\ frame' = [frame EXCEPT ![t].i = 1]
    /\ Goto(t, "live_fetch")
    /\ UNCHANGED <<rulesFile, runs, recommendations, arg, res>>

\* one iteration of the fetch loop: update_scan(..., i, symbol=symbol), the
\* per-symbol fetch, and after the last iteration the cache write of phase 3,
\* which returns or raises
live_fetch_one(t, ok) ==
    /\ pc[t] = "live_fetch"
    /\ Write(t, "update_scan",
             update_scan(status, "fetching_fundamentals", frame[t].i,
                         frame[t].stale[frame[t].i],
                         <<"Fetching", frame[t].i, Len(frame[t].stale)>>))
    /\ IF frame[t].i < Len(frame[t].stale)
       THEN /\ ok
            /\ frame' = [frame EXCEPT ![t].i = @ + 1]
            /\ UNCHANGED pc
       ELSE IF ok
            THEN Goto(t, "live_prices") /\ UNCHANGED frame
            ELSE RaiseInTry(t, "database is locked")
    /\ UNCHANGED <<rulesFile, runs, recommendations, arg, res>>

\* the snapshots the live provider may build: symbols of the symbols file in
\* file order, esm_flag and governance_flag FALSE
LiveSnapshotLists == {<<StockA, StockC>>, <<StockC>>}

\* phases 4 and 5: update_scan("fetching_prices", len(stale_symbols)), the
\* batch price fetch and the merge
live_prices(t) ==
    /\ pc[t] = "live_prices"
    /\ Write(t, "update_scan",
             update_scan(status, "fetching_prices", Len(frame[t].stale), "",
                         <<"Batch fetching live prices for", Len(Symbols)>>))
    /\ \E ss \in LiveSnapshotLists :
          frame' = [frame EXCEPT ![t].stocks = ss, ![t].stale = <<>>, ![t].i = 0]
    /\ Goto(t, "fetching_events")
    /\ UNCHANGED <<rulesFile, runs, recommendations, arg, res>>

\* scan_status.update_scan("fetching_events", 0, ...);
\* events = provider.get_recent_events(lookback_days): returns or raises
scan_fetching_events(t) ==
    /\ pc[t] = "fetching_events"
    /\ Write(t, "update_scan",
             update_scan(status, "fetching_events", 0, "",
                         <<"Fetching corporate events...">>))
    /\ \/ /\ \E evs \in EventLists : frame' = [frame EXCEPT ![t].events = evs]
          /\ Goto(t, "scoring")
       \/ RaiseInTry(t, "provider call failed")
    /\ UNCHANGED <<rulesFile, runs, recommendations, arg, res>>

\* the rules a scan would get by reading the file again when it scores
rules_reloaded(t) ==
    IF load_rules_ok(rulesFile) THEN rulesFile ELSE frame[t].rules

\* the rules the filters, the score engine and the top-N cut of run_scan use:
\* the local variable rules
rules_in_use(t) == frame[t].rules

\* scan_status.update_scan("scoring", 0, ...); the two filters,
\* ScoreEngine(rules).score, the top-N cut, rec_rows and summary (stocks and
\* events are not read after this step)
\* the frame once rec_rows and summary are built; stocks and events are
\* not read again
scored_frame(t, r) ==
    LET rows == scan_rec_rows(frame[t].stocks, frame[t].events, r)
    IN  [frame[t] EXCEPT !.rec_rows = rows,
                         !.summary = scan_summary(frame[t].run_id, run_type_of(t),
                                                  frame[t].stocks, r, rows),
                         !.stocks = <<>>,
                         !.events = <<>>]

scan_scoring(t) ==
    /\ pc[t] = "scoring"
    /\ Write(t, "update_scan",
             update_scan(status, "scoring", 0, "",
                         <<"Applying filters and scoring...">>))
    /\ \/ /\ rules_in_use(t).ui.is_int
          /\ frame' = [frame EXCEPT ![t] = scored_frame(t, rules_in_use(t))]
          /\ Goto(t, IF scan_rec_rows(frame[t].stocks, frame[t].events,
                                     rules_in_use(t)) # <<>>
                     THEN "insert_recommendations" ELSE "complete_run")
       \/ /\ ~rules_in_use(t).ui.is_int
          /\ RaiseInTry(t, "invalid literal for int()")
    /\ UNCHANGED <<rulesFile, runs, recommendations, arg, res>>

\* db.insert_recommendations(run_id, rec_rows)
scan_insert_recommendations(t, ok) ==
    /\ pc[t] = "insert_recommendations"
    /\ IF ok
       THEN /\ recommendations' =
                  insert_recommendations(recommendations, frame[t].run_id,
                                         frame[t].rec_rows)
            /\ Goto(t, "complete_run")
            /\ UNCHANGED frame
       ELSE /\ RaiseInTry(t, "database is locked")
            /\ UNCHANGED recommendations
    /\ UNCHANGED <<rulesFile, runs, status, lastWrite, arg, res>>

\* db.complete_run(run_id, summary)
scan_complete_run(t, ok) ==
    /\ pc[t] = "complete_run"
    /\ IF ok
       THEN /\ runs' = complete_run(runs, frame[t].run_id, frame[t].summary)
            /\ Goto(t, "finish_done")
            /\ UNCHANGED frame
       ELSE /\ RaiseInTry(t, "database is locked")
            /\ UNCHANGED runs
    /\ UNCHANGED <<rulesFile, recommendations, status, lastWrite, arg, res>>

\* scan_status.finish_scan("Done - n recommendations from m stocks")
scan_finish_done(t) ==
    /\ pc[t] = "finish_done"
    /\ Write(t, "finish_scan",
             finish_scan(status, <<"Done", Len(frame[t].rec_rows),
                                   frame[t].summary.universe_size>>))
    /\ Goto(t, "return")
    /\ UNCHANGED <<rulesFile, runs, recommendations, frame, arg, res>>

\* return {"run": db.get_run(run_id),
\*         "recommendations": db.get_recommendations(run_id)}:
\* each of the two reads returns or raises
scan_return(t, outcome) ==
    /\ pc[t] = "return"
    /\ IF outcome = "ok"
       THEN /\ frame' = [frame EXCEPT ![t] = Left(frame[t], "")]
            /\ Goto(t, "returned")
       ELSE RaiseInTry(t, outcome)
    /\ UNCHANGED <<rulesFile, runs, recommendations, status, lastWrite, arg, res>>

ReturnOutcomes == {"ok", "database is locked"}

\* except Exception as exc: db.fail_run(run_id, str(exc)); when fail_run
\* itself raises, its exception leaves run_scan in place of exc
scan_fail_run(t, ok) ==
    /\ pc[t] = "fail_run"
    /\ IF ok
       THEN /\ runs' = fail_run(runs, frame[t].run_id, frame[t].caught)
            /\ Goto(t, "finish_failed")
            /\ UNCHANGED frame
       ELSE /\ Propagate(t, "fail_run: database is locked")
            /\ UNCHANGED runs
    /\ UNCHANGED <<rulesFile, recommendations, status, lastWrite, arg, res>>

\* scan_status.finish_scan(f"Scan failed: {exc}"); raise
scan_finish_failed(t) ==
    /\ pc[t] = "finish_failed"
    /\ Write(t, "finish_scan",
             finish_scan(status, <<"Scan failed", frame[t].caught>>))
    /\ Propagate(t, frame[t].caught)
    /\ UNCHANGED <<rulesFile, runs, recommendations, arg, res>>

\* an except clause that only logs
_run_scan_safe_log_only(t) ==
    /\ pc[t] = "raised"
    /\ t = "bg"
    /\ Goto(t, "worker_done")
    /\ UNCHANGED <<rulesFile, runs, recommendations, status, frame, lastWrite,
                   arg, res>>

\* _run_scan_safe: except Exception as exc: logger.error(...);
\* scan_status.finish_scan(f"Scan failed: {exc}"); the thread then ends
_run_scan_safe(t) ==
    /\ pc[t] = "raised"
    /\ t = "bg"
    /\ Write(t, "finish_scan",
             finish_scan(status, <<"Scan failed", frame[t].exc>>))
    /\ Goto(t, "worker_done")
    /\ UNCHANGED <<rulesFile, runs, recommendations, frame, arg, res>>

\* save_rules_raw(yaml_text): validates, then replaces the rules file; a text
\* that does not validate raises and leaves the file alone
save_rules_raw(text) ==
    /\ validate_rules(text)
    /\ text # rulesFile
    /\ rulesFile' = text
    /\ UNCHANGED <<runs, recommendations, status, pc, frame, lastWrite, arg, res>>

\* the process dies: the threads and the tracker are gone, the database and
\* the rules file stay
crash ==
    /\ \E t \in Threads : pc[t] \in InScan
    /\ pc' = [t \in Threads |-> "crashed"]
    /\ frame' = [t \in Threads |-> NoFrame]
    /\ lastWrite' = [t \in Threads |-> NoWrite]
    /\ status' = ScanProgress
    /\ UNCHANGED <<rulesFile, runs, recommendations, arg, res>>

NoArg == [none |-> TRUE]

Init ==
    /\ rulesFile \in {MissingFile, RulesA}
    /\ runs = <<>>
    /\ recommendations = <<>>
    /\ status = ScanProgress
    /\ pc = [t \in Threads |-> "idle"]
    /\ frame = [t \in Threads |-> NoFrame]
    /\ lastWrite = [t \in Threads |-> NoWrite]
    /\ arg = NoArg
    /\ res = NoArg

Next ==
    \/ \E t \in Threads : scan_begin(t)
    \/ \E t \in Threads, ok \in BOOLEAN : scan_create_run(t, ok)
    \/ \E t \in Threads : scan_update_fetching_data(t)
    \/ \E t \in Threads : mock_get_stock_snapshots(t)
    \/ \E t \in Threads, ok \in BOOLEAN : live_start_scan(t, ok)
    \/ \E t \in Threads : live_fetching_msg(t)
    \/ \E t \in Threads, ok \in BOOLEAN : live_fetch_one(t, ok)
    \/ \E t \in Threads : live_prices(t)
    \/ \E t \in Threads : scan_fetching_events(t)
    \/ \E t \in Threads : scan_scoring(t)
    \/ \E t \in Threads, ok \in BOOLEAN : scan_insert_recommendations(t, ok)
    \/ \E t \in Threads, ok \in BOOLEAN : scan_complete_run(t, ok)
    \/ \E t \in Threads : scan_finish_done(t)
    \/ \E t \in Threads, outcome \in ReturnOutcomes : scan_return(t, outcome)
    \/ \E t \in Threads, ok \in BOOLEAN : scan_fail_run(t, ok)
    \/ \E t \in Threads : scan_finish_failed(t)
    \/ \E t \in Threads : _run_scan_safe(t)
    \/ \E text \in RulesTexts : save_rules_raw(text)
    \/ crash

Spec == Init /\ [][Next]_vars

(***************************************************************************)
(* The same scans when every persistence call succeeds and the process     *)
(* does not crash; a provider call returns or raises.                      *)
(***************************************************************************)
ScanStep(t) ==
    \/ scan_create_run(t, TRUE)
    \/ scan_update_fetching_data(t)
    \/ mock_get_stock_snapshots(t)
    \/ live_start_scan(t, TRUE)
    \/ live_fetching_msg(t)
    \/ live_fetch_one(t, TRUE)
    \/ live_prices(t)
    \/ scan_fetching_events(t)
    \/ scan_scoring(t)
    \/ scan_insert_recommendations(t, TRUE)
    \/ scan_complete_run(t, TRUE)
    \/ scan_finish_done(t)
    \/ scan_return(t, "ok")
    \/ scan_fail_run(t, TRUE)
    \/ scan_finish_failed(t)
    \/ _run_scan_safe(t)

LiveNext ==
    \/ \E t \in Threads : scan_begin(t)
    \/ \E t \in Threads : ScanStep(t)
    \/ \E text \in RulesTexts : save_rules_raw(text)

\* the positions at which thread t is running code: inside run_scan, and
\* for the worker in the except clause of _run_scan_safe.  Every position
\* has a step of ScanStep whose guard is the position alone.
Busy(t) == InScan \cup (IF t = "bg" THEN {"raised"} ELSE {})

\* thread t, running, moves on to its next position: the steps of
\* ScanStep(t) are the steps of LiveNext that change pc[t] from a position
\* of Busy(t)
Advance(t) ==
    /\ pc[t] \in Busy(t)
    /\ \E label \in (InScan \cup {"raised", "returned", "worker_done"}) \ {pc[t]} :
          pc' = [pc EXCEPT ![t] = label]

\* a running thread keeps running: run_scan has no wait, lock or
\* cancellation point, and each call it makes returns or raises
LiveSpec ==
    /\ Init
    /\ [][LiveNext]_vars
    /\ \A t \in Threads : WF_pc(Advance(t))

(***************************************************************************)
(* The score engine as a function: the inputs are drawn in the initial     *)
(* state and score is applied to them.                                     *)
(***************************************************************************)
PeValues == {0, 15, 20, 25, 30, 45, 60, 61, 90}

\* <<profit_ttm_cr, profit_prev_ttm_cr>>
ProfitPairs == {<<52, 40>>, <<10, 20>>, <<24, 0>>, <<-10, 5>>, <<0, -5>>, <<200, 20>>}

QuarterValues == {<<10, 12, 14, 16>>, <<4, 3, 2, 1>>, <<6, 6, 6, 6>>, <<5, 7, 6, 8>>}

PromoterValues == {0, 45, 100}

PledgeValues == {0, 45}

HniValues == {-5, 30}

ScoreStocks ==
    {[StockA EXCEPT !.pe = p, !.profit_ttm_cr = pr[1], !.profit_prev_ttm_cr = pr[2],
                    !.profit_q = q, !.promoter_holding_pct = ph, !.pledge_pct = pl,
                    !.hni_net_buying_cr = h, !.esm_flag = e, !.governance_flag = g] :
        p \in PeValues, pr \in ProfitPairs, q \in QuarterValues,
        ph \in PromoterValues, pl \in PledgeValues, h \in HniValues,
        e \in BOOLEAN, g \in BOOLEAN}

\* weights the validation accepts: the defaults, a single factor, a negative
\* factor weight with a positive sum, a heavy risk weight
ScoreWeights ==
    {RulesA.weights,
     [profit_trend |-> 1, valuation |-> 0, future_events |-> 0, quality |-> 0, risk |-> 0],
     [profit_trend |-> -10, valuation |-> 30, future_events |-> 0, quality |-> 0, risk |-> 200],
     [profit_trend |-> 0, valuation |-> 0, future_events |-> 100, quality |-> 5, risk |-> 100]}

ScoreRules ==
    {[RulesA EXCEPT !.weights = w, !.filters.max_pe = mp] :
        w \in ScoreWeights, mp \in {30, 60}}

EventD == [symbol |-> "AAA", event_type |-> "acquisition", age_days |-> 0]

EventE == [symbol |-> "AAA", event_type |-> "partnership", age_days |-> 200]

\* an old event of a type with a positive weight
EventF == [symbol |-> "AAA", event_type |-> "acquisition", age_days |-> 120]

ScoreEventLists ==
    {<<>>, <<EventA, EventB, EventC>>, <<EventD, EventD, EventE, EventD>>, <<EventE>>,
     <<EventF, EventA>>}

ScoreInit ==
    /\ rulesFile = MissingFile
    /\ runs = <<>>
    /\ recommendations = <<>>
    /\ status = ScanProgress
    /\ pc = [t \in Threads |-> "idle"]
    /\ frame = [t \in Threads |-> NoFrame]
    /\ lastWrite = [t \in Threads |-> NoWrite]
    /\ \E s \in ScoreStocks, evs \in ScoreEventLists, r \in ScoreRules :
          /\ validate_rules(r)
          /\ arg = [stocks |-> <<s>>, events |-> evs, rules |-> r]
    /\ res = NoArg

\* scored = ScoreEngine(rules).score(stocks, events), with what the private
\* methods returned to that call for the first snapshot
apply_score ==
    /\ res = NoArg
    /\ res' = [scored |-> score(arg.stocks, arg.events, arg.rules),
               locals |-> score_locals(arg.stocks[1], arg.events, arg.rules)]
    /\ UNCHANGED <<rulesFile, runs, recommendations, status, pc, frame,
                   lastWrite, arg>>

ScoreNext == apply_score

ScoreSpec == ScoreInit /\ [][ScoreNext]_vars

(***************************************************************************)
(* The filters and the score engine applied to snapshot lists              *)
(***************************************************************************)
\* the same profile as StockA under another symbol, at the minimum market cap
StockA2 == [StockA EXCEPT !.symbol = "AA2", !.market_cap_cr = 50]

ListPool == {StockA, StockA2, StockB, StockC, StockD, StockE}

MaxListLen == 3

SnapshotListsUpTo(n) == UNION {[1..k -> ListPool] : k \in 0..n}

CapValues == {49, 50, 50000, 50001}

UniverseStocks ==
    {[StockA EXCEPT !.market_cap_cr = c, !.exchange = x, !.sector = sec] :
        c \in CapValues, x \in {"NSE", "BSE"}, sec \in {"IT", "Auto"}}

UniverseRules ==
    {[RulesA EXCEPT !.universe.exchanges = xs, !.universe.sectors_allowlist = secs] :
        xs \in {{}, {"NSE"}}, secs \in {{}, {"IT"}}}

\* <<profit_ttm_cr, profit_prev_ttm_cr>>: growth above, at and below 5 %,
\* a shrinking profit, a zero and a negative baseline, losses
QualityProfitPairs ==
    {<<52, 40>>, <<21, 20>>, <<104, 100>>, <<10, 20>>, <<24, 0>>, <<0, -5>>,
     <<-10, 5>>, <<1, -3>>, <<9, 1>>}

QualityStocks ==
    {[StockA EXCEPT !.esm_flag = e, !.profit_ttm_cr = pr[1],
                    !.profit_prev_ttm_cr = pr[2], !.pe = p] :
        e \in BOOLEAN, pr \in QualityProfitPairs, p \in {0, 30, 31, 60, 61}}

QualityRules ==
    {[RulesA EXCEPT !.filters.exclude_esm = e, !.filters.exclude_loss_making = l,
                    !.filters.min_profit_ttm_cr = mp,
                    !.filters.min_profit_yoy_growth_pct = my,
                    !.filters.max_pe = pe] :
        e \in BOOLEAN, l \in BOOLEAN, mp \in {0, 1, 10}, my \in {0, 5},
        pe \in {30, 60}}

\* the calls a thread may make on one input: lists over the pool under the
\* default rule sets, and single snapshots around every filter threshold
ListInputs ==
    {[stocks |-> ss, events |-> evs, rules |-> r] :
        ss \in SnapshotListsUpTo(MaxListLen), evs \in EventLists, r \in {RulesA, RulesB}}
    \cup {[stocks |-> <<s>>, events |-> <<>>, rules |-> r] :
            s \in UniverseStocks, r \in UniverseRules}
    \cup {[stocks |-> <<s>>, events |-> <<>>, rules |-> r] :
            s \in QualityStocks, r \in QualityRules}

\* the latest day, counted from the day of the first call, on which score
\* is called again
MaxDaysLater == 1

\* the events as a call on the same day sees them if the clock it reads
\* were a day ahead
on_day_ahead(evs, d) == [k \in DOMAIN evs |-> [evs[k] EXCEPT !.age_days = @ + d + 1]]

\* the events as a call d days later sees them: age_days stands for
\* (date.today() - e.event_date).days, and date.today() has moved on by d
on_day(evs, d) == [k \in DOMAIN evs |-> [evs[k] EXCEPT !.age_days = @ + d]]

ListInit ==
    /\ rulesFile = MissingFile
    /\ runs = <<>>
    /\ recommendations = <<>>
    /\ status = ScanProgress
    /\ pc = [t \in Threads |-> "idle"]
    /\ frame = [t \in Threads |-> NoFrame]
    /\ lastWrite = [t \in Threads |-> NoWrite]
    /\ arg \in ListInputs
    /\ validate_rules(arg.rules)
    /\ res = [calls |-> {}, universe |-> <<>>, passed |-> <<>>, scored |-> <<>>,
              rescored |-> <<>>, days |-> 0]

ListUnchanged ==
    UNCHANGED <<rulesFile, runs, recommendations, status, pc, frame, lastWrite, arg>>

\* universe = self._apply_universe_filters(stocks, rules)
apply_universe_filters ==
    /\ "universe" \notin res.calls
    /\ res' = [res EXCEPT !.calls = @ \cup {"universe"},
                          !.universe = _apply_universe_filters(arg.stocks, arg.rules)]
    /\ ListUnchanged

\* passed = self._apply_quality_filters(stocks, rules)
apply_quality_filters ==
    /\ "quality" \notin res.calls
    /\ res' = [res EXCEPT !.calls = @ \cup {"quality"},
                          !.passed = _apply_quality_filters(arg.stocks, arg.rules)]
    /\ ListUnchanged

\* scored = ScoreEngine(rules).score(stocks, events)
apply_score_list ==
    /\ "score" \notin res.calls
    /\ res' = [res EXCEPT !.calls = @ \cup {"score"},
                          !.scored = score(arg.stocks, arg.events, arg.rules)]
    /\ ListUnchanged

\* a second ScoreEngine(rules).score(stocks, events) on the same objects,
\* d days after the first
apply_score_again(d) ==
    /\ "score" \in res.calls
    /\ "again" \notin res.calls
    /\ res' = [res EXCEPT !.calls = @ \cup {"again"},
                          !.days = d,
                          !.rescored = score(arg.stocks, on_day(arg.events, d), arg.rules)]
    /\ ListUnchanged

ListNext ==
    \/ apply_universe_filters
    \/ apply_quality_filters
    \/ apply_score_list
    \/ \E d \in 0..MaxDaysLater : apply_score_again(d)

ListSpec == ListInit /\ [][ListNext]_vars

(***************************************************************************)
(* core/db.py: the fundamentals cache; providers/india_live_provider.py:   *)
(* IndiaLiveProvider.get_stock_snapshots                                   *)
(***************************************************************************)
\* Symbols are named by numerals; times are whole days. A fetched_at text either
\* parses with datetime.fromisoformat to the day it was written or does not
\* parse.
utc_now_iso(now) == [parses |-> TRUE, at |-> now]

NotATimestamp == [parses |-> FALSE, at |-> 0]

\* IndiaLiveProvider.CACHE_MAX_AGE_DAYS
CACHE_MAX_AGE_DAYS == 90

\* the batch size of the incremental cache write
BatchSize == 20

\* the dict get_cached_fundamentals builds from a row (all columns but
\* fetched_at)
entry_of(row) == [symbol |-> row.symbol, fund |-> row.fund, metrics |-> row.metrics]

\* the freshness test with the cutoff off by one day
is_fresh_strict(row, max_age_days, now) ==
    /\ row.fetched_at.parses
    /\ ~(row.fetched_at.at <= now - max_age_days)

\* the row survives the two "continue" of get_cached_fundamentals
is_fresh(row, max_age_days, now) ==
    /\ row.fetched_at.parses
    /\ ~(row.fetched_at.at < now - max_age_days)

\* get_cached_fundamentals(symbols, max_age_days) at time now: a dict from
\* symbol to entry
get_cached_fundamentals(tbl, symbols, max_age_days, now) ==
    LET asked == {symbols[k] : k \in 1..Len(symbols)}
        rows == {row \in tbl : row.symbol \in asked /\ is_fresh(row, max_age_days, now)}
    IN  IF symbols = <<>> THEN <<>>
        ELSE [sym \in {row.symbol : row \in rows} |->
                entry_of(CHOOSE row \in rows : row.symbol = sym)]

\* an upsert that inserts without resolving the conflict on the symbol
upsert_fundamentals_cache_appending(tbl, entries, now) ==
    tbl \cup {[symbol |-> entries[k].symbol, fund |-> entries[k].fund,
               metrics |-> entries[k].metrics, fetched_at |-> utc_now_iso(now)] :
                 k \in 1..Len(entries)}

\* upsert_fundamentals_cache(entries) at time now: INSERT ... ON CONFLICT
\* (symbol) DO UPDATE, entry by entry, one commit
upsert_fundamentals_cache(tbl, entries, now) ==
    LET after[k \in 0..Len(entries)] ==
            IF k = 0 THEN tbl
            ELSE {row \in after[k - 1] : row.symbol # entries[k].symbol}
                 \cup {[symbol |-> entries[k].symbol, fund |-> entries[k].fund,
                        metrics |-> entries[k].metrics,
                        fetched_at |-> utc_now_iso(now)]}
    IN  after[Len(entries)]

\* a loop that never writes a batch
batch_never_due(entries) == FALSE

\* len(new_cache_entries) % 20 == 0 and new_cache_entries
batch_due(entries) == Len(entries) % BatchSize = 0 /\ entries # <<>>

\* new_cache_entries[-20:]
last_batch(entries) ==
    SubSeq(entries, Max(1, Len(entries) - BatchSize + 1), Len(entries))

\* what _fetch_fundamentals returns for a symbol at time now when it
\* succeeds: the fundamentals as of now and a metrics dict with the price
\* of now
fetched_entry(symbol, now) ==
    [symbol |-> symbol, fund |-> now, metrics |-> [current_price |-> now]]

\* a merge that stops at the first symbol without fundamentals
merge_snapshots_stopping(symbols, cached, priced, now) ==
    LET missing == {k \in 1..Len(symbols) : symbols[k] \notin DOMAIN cached}
        last == IF missing = {} THEN Len(symbols)
                ELSE (CHOOSE k \in missing : \A j \in missing : k <= j) - 1
    IN  [k \in 1..last |->
            [symbol |-> symbols[k], fund |-> cached[symbols[k]].fund,
             current_price |-> IF symbols[k] \in priced THEN now
                               ELSE cached[symbols[k]].metrics.current_price]]

\* phase 5: the snapshots of the symbols that have fundamentals, in file
\* order, the live price written over metrics["current_price"] where the
\* batch price call returned one
merge_snapshots(symbols, cached, priced, now) ==
    LET has(sym) == sym \in DOMAIN cached
        kept == SelectSeq(symbols, has)
    IN  [k \in 1..Len(kept) |->
            [symbol |-> kept[k], fund |-> cached[kept[k]].fund,
             current_price |-> IF kept[k] \in priced THEN now
                               ELSE cached[kept[k]].metrics.current_price]]

\* the locals of get_stock_snapshots
NoLocals ==
    [symbols |-> <<>>, cached |-> <<>>, stale |-> <<>>, i |-> 0,
     new_cache_entries |-> <<>>, fetched |-> <<>>, out |-> <<>>]

\* the longest symbols file
LongFileLen == 22

\* the clock moves at most this often
MaxTicks == 1

\* ages in days of the rows the cache holds at the start
InitialAges == {90, 91}

InitialRows(sym, now) ==
    {{}} \cup {{[symbol |-> sym, fund |-> now - a,
                 metrics |-> [current_price |-> now - a],
                 fetched_at |-> utc_now_iso(now - a)]} : a \in InitialAges}
         \cup {{[symbol |-> sym, fund |-> 0, metrics |-> [current_price |-> 0],
                 fetched_at |-> NotATimestamp]}}

StartDay == 100

\* a short symbols file over a cache with rows of every age, or a long one
\* over an empty cache on a single day; flaky are the symbols whose fetch may
\* return None
ProviderInit ==
    /\ rulesFile = MissingFile
    /\ runs = <<>>
    /\ recommendations = <<>>
    /\ status = ScanProgress
    /\ pc = [t \in Threads |-> "idle"]
    /\ frame = [t \in Threads |-> NoLocals]
    /\ lastWrite = [t \in Threads |-> NoWrite]
    /\ \/ /\ arg = [now |-> StartDay, symbols_file |-> <<"1", "2">>, ticks |-> 0,
                    flaky |-> {"1", "2"}, threads |-> Threads]
          /\ \E r1 \in InitialRows("1", StartDay), r2 \in InitialRows("2", StartDay) :
                res = [stock_cache |-> r1 \cup r2, lost |-> [t \in Threads |-> 0]]
       \/ /\ arg = [now |-> StartDay,
                    symbols_file |-> [k \in 1..LongFileLen |-> ToString(k)],
                    ticks |-> MaxTicks, flaky |-> {"1", "20"}, threads |-> {"bg"}]
          /\ res = [stock_cache |-> {}, lost |-> [t \in Threads |-> 0]]

ProviderUnchanged == UNCHANGED <<rulesFile, runs, recommendations, lastWrite>>

\* phase 1: symbols, start_scan, the cache read, the stale list and the
\* message before the loop
prov_begin(t) ==
    /\ pc[t] = "idle"
    /\ t \in arg.threads
    /\ LET symbols == arg.symbols_file
           cached == get_cached_fundamentals(res.stock_cache, symbols,
                                             CACHE_MAX_AGE_DAYS, arg.now)
           fresh(sym) == sym \in DOMAIN cached
           isstale(sym) == ~fresh(sym)
           stale == SelectSeq(symbols, isstale)
           started == start_scan(status, Len(symbols))
       IN  IF symbols = <<>>
           THEN /\ frame' = [frame EXCEPT ![t] = NoLocals]
                /\ pc' = [pc EXCEPT ![t] = "returned"]
                /\ UNCHANGED status
           ELSE /\ frame' = [frame EXCEPT ![t] =
                       [NoLocals EXCEPT !.symbols = symbols, !.cached = cached,
                                        !.stale = stale, !.i = 1]]
                /\ status' = IF stale # <<>>
                             THEN update_scan(started, "fetching_fundamentals", 0, "",
                                              <<"Fetching fundamentals for", Len(stale)>>)
                             ELSE started
                /\ pc' = [pc EXCEPT ![t] = IF stale # <<>> THEN "fetch" ELSE "persist"]
    /\ UNCHANGED <<arg, res>>
    /\ ProviderUnchanged

\* the loop body up to the append: update_scan, _fetch_fundamentals, which
\* returns an entry or None
prov_fetch(t, ok) ==
    /\ pc[t] = "fetch"
    /\ LET f == frame[t]
           symbol == f.stale[f.i]
           entry == fetched_entry(symbol, arg.now)
       IN  /\ status' = update_scan(status, "fetching_fundamentals", f.i, symbol,
                                    <<"Fetching", f.i, Len(f.stale)>>)
           /\ IF ok
              THEN /\ frame' = [frame EXCEPT
                         ![t].cached = [sym \in DOMAIN f.cached \cup {symbol} |->
                                           IF sym = symbol THEN entry ELSE f.cached[sym]],
                         ![t].new_cache_entries = Append(@, entry),
                         ![t].fetched = Append(@, symbol)]
              ELSE /\ symbol \in arg.flaky
                   /\ frame' = [frame EXCEPT ![t].fetched = Append(@, symbol)]
    /\ pc' = [pc EXCEPT ![t] = "batch"]
    /\ UNCHANGED <<arg, res>>
    /\ ProviderUnchanged

\* the end of the loop body: the batch write when the number of entries is a
\* positive multiple of 20
prov_batch(t) ==
    /\ pc[t] = "batch"
    /\ LET f == frame[t]
           due == batch_due(f.new_cache_entries)
       IN  /\ res' = IF due
                     THEN [res EXCEPT
                             !.stock_cache = upsert_fundamentals_cache(
                                 @, last_batch(f.new_cache_entries), arg.now)]
                     ELSE res
           /\ frame' = [frame EXCEPT ![t].i = @ + 1]
           /\ pc' = [pc EXCEPT ![t] = IF f.i < Len(f.stale) THEN "fetch" ELSE "persist"]
    /\ UNCHANGED <<status, arg>>
    /\ ProviderUnchanged

\* phase 3: all new entries are written
prov_persist(t) ==
    /\ pc[t] = "persist"
    /\ res' = IF frame[t].new_cache_entries # <<>>
              THEN [res EXCEPT
                      !.stock_cache = upsert_fundamentals_cache(
                          @, frame[t].new_cache_entries, arg.now)]
              ELSE res
    /\ pc' = [pc EXCEPT ![t] = "prices"]
    /\ UNCHANGED <<status, frame, arg>>
    /\ ProviderUnchanged

\* phases 4 and 5: the batch price call, which returns prices for some of
\* the symbols, and the merge; the snapshots are returned
prov_prices(t, priced) ==
    /\ pc[t] = "prices"
    /\ status' = update_scan(status, "fetching_prices", Len(frame[t].stale), "",
                             <<"Batch fetching live prices for", Len(frame[t].symbols)>>)
    /\ frame' = [frame EXCEPT ![t].out =
                    merge_snapshots(frame[t].symbols, frame[t].cached,
                                    priced, arg.now)]
    /\ pc' = [pc EXCEPT ![t] = "returned"]
    /\ UNCHANGED <<arg, res>>
    /\ ProviderUnchanged

\* the caller is done with the snapshots; the thread may scan again
prov_again(t) ==
    /\ pc[t] = "returned"
    /\ arg.ticks > 0
    /\ pc' = [pc EXCEPT ![t] = "idle"]
    /\ frame' = [frame EXCEPT ![t] = NoLocals]
    /\ UNCHANGED <<status, arg, res>>
    /\ ProviderUnchanged

\* a day passes
tick ==
    /\ arg.ticks < MaxTicks
    /\ arg' = [arg EXCEPT !.now = @ + 1, !.ticks = @ + 1]
    /\ UNCHANGED <<status, pc, frame, res>>
    /\ ProviderUnchanged

\* the entries a scan has fetched that no row of the cache table carries
unpersisted(tbl, entries) ==
    {k \in 1..Len(entries) :
        ~\E row \in tbl : entry_of(row) = entries[k]}

\* the process dies: the locals of the scans and the tracker are gone, the
\* cache table is what is left; lost counts the fetched entries that went
\* with the locals
prov_crash ==
    /\ \E t \in Threads : pc[t] \in {"fetch", "batch", "persist"}
    /\ pc' = [t \in Threads |-> "crashed"]
    /\ frame' = [t \in Threads |-> NoLocals]
    /\ status' = ScanProgress
    /\ res' = [res EXCEPT !.lost =
                  [t \in Threads |->
                      Cardinality(unpersisted(res.stock_cache,
                                              frame[t].new_cache_entries))]]
    /\ UNCHANGED arg
    /\ ProviderUnchanged

\* the symbols the batch price call returns a price for
PricedSets == {{}, {"1"}, {"1", "2"}}

ProviderNext ==
    \/ \E t \in Threads : prov_begin(t)
    \/ \E t \in Threads, ok \in BOOLEAN : prov_fetch(t, ok)
    \/ \E t \in Threads : prov_batch(t)
    \/ \E t \in Threads : prov_persist(t)
    \/ \E t \in Threads, priced \in PricedSets : prov_prices(t, priced)
    \/ \E t \in Threads : prov_again(t)
    \/ tick
    \/ prov_crash

ProviderSpec == ProviderInit /\ [][ProviderNext]_vars

(***************************************************************************)
(* core/db.py: get_cached_fundamentals and upsert_fundamentals_cache       *)
(* applied to cache tables with rows of every age                          *)
(***************************************************************************)
\* ages in days of the rows of the table at the start
CacheAges == {0, 1, 2, 89, 90, 91}

CacheRows(sym, now) ==
    {{}} \cup {{[symbol |-> sym, fund |-> now - a,
                 metrics |-> [current_price |-> now - a],
                 fetched_at |-> utc_now_iso(now - a)]} : a \in CacheAges}
         \cup {{[symbol |-> sym, fund |-> 0, metrics |-> [current_price |-> 0],
                 fetched_at |-> NotATimestamp]}}

NoCall == [op |-> "none"]

CacheInit ==
    /\ rulesFile = MissingFile
    /\ runs = <<>>
    /\ recommendations = <<>>
    /\ status = ScanProgress
    /\ pc = [t \in Threads |-> "idle"]
    /\ frame = [t \in Threads |-> NoLocals]
    /\ lastWrite = [t \in Threads |-> NoWrite]
    /\ arg = [now |-> StartDay, ticks |-> 0]
    /\ \E r1 \in CacheRows("1", StartDay), r2 \in CacheRows("2", StartDay),
          r3 \in {{}, {[symbol |-> "3", fund |-> StartDay,
                        metrics |-> [current_price |-> StartDay],
                        fetched_at |-> utc_now_iso(StartDay)]}} :
          res = [stock_cache |-> r1 \cup r2 \cup r3, call |-> NoCall]

\* a caller reads the cache
read_cache(symbols, max_age_days) ==
    /\ res' = [res EXCEPT !.call =
                  [op |-> "get", symbols |-> symbols,
                   max_age_days |-> max_age_days, now |-> arg.now,
                   result |-> get_cached_fundamentals(res.stock_cache, symbols,
                                                      max_age_days, arg.now)]]
    /\ UNCHANGED <<status, pc, frame, arg>>
    /\ ProviderUnchanged

\* a caller writes entries to the cache; picks names, entry by entry, the
\* symbol and how many days ago its values were fetched
write_cache(picks) ==
    /\ LET entries == [k \in 1..Len(picks) |->
                          fetched_entry(picks[k][1], arg.now - picks[k][2])]
       IN  res' = [stock_cache |-> upsert_fundamentals_cache(res.stock_cache,
                                                             entries, arg.now),
                   call |-> [op |-> "upsert", entries |-> entries, now |-> arg.now]]
    /\ UNCHANGED <<status, pc, frame, arg>>
    /\ ProviderUnchanged

ReadSymbolLists == {<<>>, <<"1">>, <<"2", "1">>, <<"1", "4">>}

ReadMaxAges == {0, 1, CACHE_MAX_AGE_DAYS}

WritePick == {"1", "2"} \X {0, 1}

WritePicks ==
    {<<>>} \cup {<<p>> : p \in WritePick}
           \cup {<<p1, p2>> : p1 \in WritePick, p2 \in WritePick}

CacheNext ==
    \/ \E symbols \in ReadSymbolLists, max_age_days \in ReadMaxAges :
          read_cache(symbols, max_age_days)
    \/ \E picks \in WritePicks : write_cache(picks)
    \/ tick

CacheSpec == CacheInit /\ [][CacheNext]_vars

(***************************************************************************)
(* services/scan_status.py statement by statement: the lock, the           *)
(* assignments of each write and the reads of to_dict, under scans of      *)
(* services/pipeline.py and a polling reader                               *)
(***************************************************************************)
\* a thread that does not take the lock
without_lock(lock) == TRUE

\* with _lock: the thread enters when no thread holds the lock
with_lock(lock) == lock = "free"

\* the fields each write assigns, in the order of its statements
AssignedFields(name) ==
    CASE name = "start_scan" ->
            <<"running", "phase", "current", "total", "symbol", "message">>
      [] name = "update_scan" -> <<"phase", "current", "symbol", "message">>
      [] name = "finish_scan" -> <<"running", "phase", "current", "message">>

\* the tracker after the assignment of one field by a write; finish_scan
\* reads _status.total when it assigns current
assign(st, op, field) ==
    CASE field = "running" -> [st EXCEPT !.running = (op.name = "start_scan")]
      [] field = "phase" ->
            [st EXCEPT !.phase = IF op.name = "start_scan" THEN "starting"
                                 ELSE IF op.name = "finish_scan" THEN "done"
                                 ELSE op.phase]
      [] field = "current" ->
            [st EXCEPT !.current = IF op.name = "start_scan" THEN 0
                                   ELSE IF op.name = "finish_scan" THEN st.total
                                   ELSE op.current]
      [] field = "total" -> [st EXCEPT !.total = op.total]
      [] field = "symbol" ->
            [st EXCEPT !.symbol = IF op.name = "start_scan" THEN "" ELSE op.symbol]
      [] field = "message" ->
            [st EXCEPT !.message = IF op.name = "start_scan"
                                   THEN <<"Starting scan of", op.total>>
                                   ELSE op.message]

\* the reads of ScanProgress.to_dict in the order of its expressions; pct
\* reads current and total once more
ReadFields ==
    <<"running", "phase", "current", "total", "symbol", "message",
      "pct_current", "pct_total">>

NoDict ==
    [running |-> FALSE, phase |-> "", current |-> 0, total |-> 0, symbol |-> "",
     message |-> <<"">>, pct |-> 0]

\* the dict being built after the read of one field
read_field(d, st, field) ==
    CASE field = "running" -> [d EXCEPT !.running = st.running]
      [] field = "phase" -> [d EXCEPT !.phase = st.phase]
      [] field = "current" -> [d EXCEPT !.current = st.current]
      [] field = "total" -> [d EXCEPT !.total = st.total]
      [] field = "symbol" -> [d EXCEPT !.symbol = st.symbol]
      [] field = "message" -> [d EXCEPT !.message = st.message]
      [] field = "pct_current" -> [d EXCEPT !.pct = st.current]
      [] field = "pct_total" -> [d EXCEPT !.pct = RoundDiv(@ * 100, Max(st.total, 1))]

\* ScanProgress.to_dict of a tracker that does not change meanwhile
to_dict(st) ==
    [running |-> st.running, phase |-> st.phase, current |-> st.current,
     total |-> st.total, symbol |-> st.symbol, message |-> st.message,
     pct |-> pct(st)]

UpdateOp(phase, current, symbol, message) ==
    [name |-> "update_scan", phase |-> phase, current |-> current, total |-> 0,
     symbol |-> symbol, message |-> message]

StartOp(total) ==
    [name |-> "start_scan", phase |-> "starting", current |-> 0, total |-> total,
     symbol |-> "", message |-> <<"Starting scan of", total>>]

FinishOp(message) ==
    [name |-> "finish_scan", phase |-> "done", current |-> 0, total |-> 0,
     symbol |-> "", message |-> message]

\* the tracker calls of IndiaLiveProvider.get_stock_snapshots over n symbols
\* of which the first stale ones have no fresh cache entry
ProviderCalls(n, stale) ==
    IF n = 0 THEN <<>>
    ELSE <<StartOp(n)>>
         \o (IF stale > 0
             THEN <<UpdateOp("fetching_fundamentals", 0, "",
                             <<"Fetching fundamentals for", stale>>)>>
             ELSE <<>>)
         \o [i \in 1..stale |->
                UpdateOp("fetching_fundamentals", i, ToString(i),
                         <<"Fetching", i, stale>>)]
         \o <<UpdateOp("fetching_prices", stale, "",
                       <<"Batch fetching live prices for", n>>)>>

\* the tracker calls of PipelineService.run_scan when nothing raises; the
\* mock provider makes none
ScanCalls(live, n, stale) ==
    <<UpdateOp("fetching_data", 0, "", <<"Loading stock data...">>)>>
    \o (IF live THEN ProviderCalls(n, stale) ELSE <<>>)
    \o <<UpdateOp("fetching_events", 0, "", <<"Fetching corporate events...">>),
         UpdateOp("scoring", 0, "", <<"Applying filters and scoring...">>),
         FinishOp(<<"Done">>)>>

\* the symbols file is this long
FileLen == 2

Poll == "poll"

TrackerProcs == Threads \cup {Poll}

NoScan == [calls |-> <<>>, k |-> 0, f |-> 0]

NoRead == [seen |-> NoDict, f |-> 0]

\* res holds the lock and, while a read is under way, the values the tracker
\* had between whole writes
TrackerInit ==
    /\ rulesFile = MissingFile
    /\ runs = <<>>
    /\ recommendations = <<>>
    /\ status = ScanProgress
    /\ pc = [p \in TrackerProcs |-> "idle"]
    /\ frame = [p \in TrackerProcs |-> IF p = Poll THEN NoRead ELSE NoScan]
    /\ lastWrite = [t \in Threads |-> NoWrite]
    /\ arg = NoArg
    /\ res = [lock |-> "free", committed |-> ScanProgress, whole |-> {},
              last |-> "none"]

\* run_scan loads the rules and builds the provider: the mock provider, or
\* the live provider over the first n symbols of the symbols file
\* (symbols[:max_symbols]), of which all or none have a fresh cache entry
begin_scan(t, live, n, all_stale) ==
    /\ pc[t] = "idle"
    /\ frame' = [frame EXCEPT ![t] =
          [calls |-> ScanCalls(live, n, IF all_stale THEN n ELSE 0),
           k |-> 1, f |-> 0]]
    /\ pc' = [pc EXCEPT ![t] = "call"]
    /\ UNCHANGED <<status, arg, res>>
    /\ ProviderUnchanged

\* an exception inside the try block: the next tracker call is the
\* finish_scan of the except clause
scan_raises(t) ==
    /\ pc[t] = "call"
    /\ frame[t].k < Len(frame[t].calls)
    /\ frame' = [frame EXCEPT ![t] =
          [calls |-> <<FinishOp(<<"Scan failed">>)>>, k |-> 1, f |-> 0]]
    /\ UNCHANGED <<status, pc, arg, res>>
    /\ ProviderUnchanged

\* start_scan, update_scan or finish_scan enters its with block
write_enter(t) ==
    /\ pc[t] = "call"
    /\ with_lock(res.lock)
    /\ res' = [res EXCEPT !.lock = t]
    /\ pc' = [pc EXCEPT ![t] = "locked"]
    /\ UNCHANGED <<status, frame, arg>>
    /\ ProviderUnchanged

\* one assignment of the write
write_assign(t) ==
    /\ pc[t] = "locked"
    /\ LET op == frame[t].calls[frame[t].k]
           fields == AssignedFields(op.name)
       IN  /\ frame[t].f < Len(fields)
           /\ status' = assign(status, op, fields[frame[t].f + 1])
           /\ frame' = [frame EXCEPT ![t].f = @ + 1]
    /\ UNCHANGED <<pc, arg, res>>
    /\ ProviderUnchanged

\* the write leaves its with block; the scan goes on to its next call or
\* has ended
write_leave(t) ==
    /\ pc[t] = "locked"
    /\ LET op == frame[t].calls[frame[t].k]
       IN  /\ frame[t].f = Len(AssignedFields(op.name))
           /\ res' = [lock |-> "free", committed |-> status,
                      whole |-> IF pc[Poll] = "locked" THEN res.whole \cup {status}
                                ELSE {},
                      last |-> op.name]
           /\ IF frame[t].k < Len(frame[t].calls)
              THEN /\ frame' = [frame EXCEPT ![t].k = @ + 1, ![t].f = 0]
                   /\ pc' = [pc EXCEPT ![t] = "call"]
              ELSE /\ frame' = [frame EXCEPT ![t] = NoScan]
                   /\ pc' = [pc EXCEPT ![t] = "idle"]
    /\ UNCHANGED <<status, arg>>
    /\ ProviderUnchanged

\* get_scan_status enters its with block
get_scan_status_enter ==
    /\ pc[Poll] = "idle"
    /\ with_lock(res.lock)
    /\ res' = [res EXCEPT !.lock = Poll, !.whole = {res.committed}]
    /\ pc' = [pc EXCEPT ![Poll] = "locked"]
    /\ frame' = [frame EXCEPT ![Poll] = NoRead]
    /\ UNCHANGED <<status, arg>>
    /\ ProviderUnchanged

\* to_dict reads one field
get_scan_status_read ==
    /\ pc[Poll] = "locked"
    /\ frame[Poll].f < Len(ReadFields)
    /\ frame' = [frame EXCEPT
          ![Poll].seen = read_field(@, status, ReadFields[frame[Poll].f + 1]),
          ![Poll].f = @ + 1]
    /\ UNCHANGED <<status, pc, arg, res>>
    /\ ProviderUnchanged

\* get_scan_status returns the dict; the dashboard will poll again
get_scan_status_leave ==
    /\ pc[Poll] = "locked"
    /\ frame[Poll].f = Len(ReadFields)
    /\ res' = [res EXCEPT !.lock = "free", !.whole = {}]
    /\ pc' = [pc EXCEPT ![Poll] = "idle"]
    /\ frame' = [frame EXCEPT ![Poll] = NoRead]
    /\ UNCHANGED <<status, arg>>
    /\ ProviderUnchanged

TrackerNext ==
    \/ \E t \in Threads, live \in BOOLEAN, n \in 1..FileLen, all_stale \in BOOLEAN :
          begin_scan(t, live, n, all_stale)
    \/ \E t \in Threads : scan_raises(t)
    \/ \E t \in Threads : write_enter(t)
    \/ \E t \in Threads : write_assign(t)
    \/ \E t \in Threads : write_leave(t)
    \/ get_scan_status_enter
    \/ get_scan_status_read
    \/ get_scan_status_leave

TrackerSpec == TrackerInit /\ [][TrackerNext]_vars

(***************************************************************************)
(* Claims                                                                  *)
(***************************************************************************)
RunIds == DOMAIN runs

\* C1: every run row has status running, completed or failed, and once a
\* row has left status running (complete_run or fail_run was applied to it)
\* it is never written again; complete_run and fail_run are never both
\* applied to one run id.
C1_RunWrittenOnce ==
    /\ [](\A r \in RunIds : runs[r].status \in {"running", "completed", "failed"})
    /\ [][\A r \in RunIds : runs[r].status # "running" => runs'[r] = runs[r]]_vars

\* positions of run_scan at which a provider call has started
ProviderPcs == {"live_msg", "live_fetch", "live_prices", "fetching_events", "scoring"}

\* C2: whenever a provider call of a scan has started or has failed, the run
\* row of that scan exists, with the rules of the scan as its snapshot.
C2_RunRowBeforeProvider ==
    \A t \in Threads :
        (pc[t] \in ProviderPcs \/ frame[t].caught = "provider call failed")
            => /\ frame[t].run_id \in RunIds
               /\ runs[frame[t].run_id].run_type = run_type_of(t)

\* C2 witness: a provider call failed and the run row of the scan is there,
\* still running
C2_Witness ==
    \E t \in Threads :
        /\ pc[t] = "fail_run"
        /\ frame[t].caught = "provider call failed"
        /\ frame[t].run_id \in RunIds
        /\ runs[frame[t].run_id].status = "running"

\* C3: whenever run_scan is left by an exception raised after the run row
\* was created, the row is failed, its error_text is the message of the
\* exception the except clause caught, and that exception is the one
\* leaving run_scan.
C3_FailureRecordedAndReraised ==
    \A t \in Threads :
        (pc[t] = "raised" /\ frame[t].caught # "")
            => /\ runs[frame[t].run_id].status = "failed"
               /\ runs[frame[t].run_id].error_text = frame[t].caught
               /\ frame[t].exc = frame[t].caught

\* C4: whenever the synchronous caller's run_scan is left by an exception
\* after its run row was created, the last tracker write of the scan is
\* finish_scan with the message "Scan failed: ...", which left running FALSE
\* and phase "done".
C4_FailureIsLastWrite ==
    (pc["sync"] = "raised" /\ frame["sync"].run_id # 0)
        => /\ lastWrite["sync"].op = "finish_scan"
           /\ lastWrite["sync"].running = FALSE
           /\ lastWrite["sync"].phase = "done"
           /\ lastWrite["sync"].message[1] = "Scan failed"

\* C5: when the background worker has ended after run_scan raised, whatever
\* the failure (a rules-loading failure included), its last tracker write is
\* finish_scan with "Scan failed: <the exception>", which left running FALSE.
C5_WorkerReportsFailure ==
    pc["bg"] = "worker_done"
        => /\ lastWrite["bg"].op = "finish_scan"
           /\ lastWrite["bg"].running = FALSE
           /\ lastWrite["bg"].message = <<"Scan failed", frame["bg"].exc>>

\* C5 witness: the worker ended after a rules-loading failure, before any
\* run row existed
C5_Witness ==
    /\ pc["bg"] = "worker_done"
    /\ frame["bg"].exc = "RuleValidationError"
    /\ frame["bg"].run_id = 0
    /\ status.running = FALSE
    /\ status.message = <<"Scan failed", "RuleValidationError">>

\* C6: a completed run has recommended_count = min(passed_filters,
\* max_recommendations_per_run), which is the number of recommendation rows
\* of the run.
C6_RecommendedCountIsMin ==
    \A r \in RunIds :
        runs[r].status = "completed"
            => /\ runs[r].summary.recommended_count =
                    Min(runs[r].summary.passed_filters,
                        runs[r].rules_snapshot.ui.max_recommendations_per_run)
               /\ Len(recommendations[r]) = runs[r].summary.recommended_count

\* C7 as stated: at the point between the persistence steps of a scan with
\* rec_rows to persist (between insert_recommendations and complete_run), the
\* database, which is what a crash at that point leaves, holds the run
\* completed and no recommendation row of the run.
C7_Original ==
    \A t \in Threads :
        (pc[t] = "complete_run" /\ frame[t].rec_rows # <<>>
            /\ frame[t].rules.ui.max_recommendations_per_run >= 1)
            => /\ runs[frame[t].run_id].status = "completed"
               /\ recommendations[frame[t].run_id] = <<>>

\* C7 amended: the recommendation rows are written before the run is
\* completed, so in every state of the database, a crash at any point
\* included, a completed run with at least one scored stock and
\* max_recommendations_per_run >= 1 has its recommendation rows.
C7_CompletedRunHasRows ==
    \A r \in RunIds :
        (runs[r].status = "completed"
            /\ runs[r].summary.passed_filters >= 1
            /\ runs[r].rules_snapshot.ui.max_recommendations_per_run >= 1)
            => /\ recommendations[r] # <<>>
               /\ Len(recommendations[r]) = runs[r].summary.recommended_count

\* C7 witness: the process crashed between insert_recommendations and
\* complete_run: the rows are there and the run is still running
C7_Witness ==
    /\ \A t \in Threads : pc[t] = "crashed"
    /\ \E r \in RunIds :
          /\ runs[r].status = "running"
          /\ recommendations[r] # <<>>
          /\ runs[r].rules_snapshot.ui.max_recommendations_per_run >= 1

\* a thread inside run_scan (or in the worker's except clause) has a step to
\* take: at the scoring position the two branches of the step cover every
\* value of the rules, at every other position a step of ScanStep is enabled
NoStall ==
    \A t \in Threads :
        pc[t] \in Busy(t) =>
            IF pc[t] = "scoring" THEN rules_in_use(t).ui.is_int \in BOOLEAN
            ELSE ENABLED ScanStep(t)

\* C8: when persistence calls succeed, provider calls return or raise and
\* the process does not crash, no scan stalls (a running thread always has a
\* step to take) and every run row that is created leaves status running:
\* it reaches completed or failed.
C8_RunLeavesRunning ==
    /\ []NoStall
    /\ \A r \in 1..Cardinality(Threads) :
          (r \in RunIds /\ runs[r].status = "running")
              ~> (r \in RunIds /\ runs[r].status \in {"completed", "failed"})

\* C8 witness: a run whose provider call raised has left status running
C8_Witness ==
    \E r \in RunIds :
        /\ runs[r].status = "failed"
        /\ runs[r].error_text = "provider call failed"

\* C9: a run_scan loads the rules once; while it runs, its rules are the
\* snapshot on its run row; and what the filters, the score engine and the
\* top-N cut produce (rec_rows, summary) is what they produce under that
\* snapshot, whatever save_rules_raw did to the file meanwhile.
C9_RulesFrozen ==
    /\ [](\A t \in Threads :
            /\ frame[t].loads <= 1
            /\ pc[t] \in InScan => frame[t].loads = 1
            /\ (pc[t] \in InScan /\ frame[t].run_id # 0 /\ frame[t].caught = "")
                  => runs[frame[t].run_id].rules_snapshot = frame[t].rules)
    /\ [][\A t \in Threads :
            (pc[t] = "scoring" /\ pc'[t] \in {"insert_recommendations", "complete_run"})
                => LET snap == runs[frame[t].run_id].rules_snapshot
                   IN  /\ frame'[t].rec_rows =
                            scan_rec_rows(frame[t].stocks, frame[t].events, snap)
                       /\ frame'[t].summary =
                            scan_summary(frame[t].run_id, run_type_of(t),
                                         frame[t].stocks, snap, frame'[t].rec_rows)]_vars

\* C9 witness: a scan has scored its stocks after the rules file was replaced
C9_Witness ==
    \E t \in Threads :
        /\ pc[t] = "insert_recommendations"
        /\ rulesFile # frame[t].rules
        /\ runs[frame[t].run_id].rules_snapshot = frame[t].rules

InRange(x) == 0 <= x /\ x <= 100 * FP

\* C10: every ScoredStock that score produces has final_score and each of
\* the five score_breakdown entries within [0, 100].
C10_ScoresInRange ==
    res # NoArg =>
        \A i \in 1..Len(res.scored) :
            /\ InRange(res.scored[i].final_score)
            /\ InRange(res.scored[i].score_breakdown.profit_trend)
            /\ InRange(res.scored[i].score_breakdown.valuation)
            /\ InRange(res.scored[i].score_breakdown.future_events)
            /\ InRange(res.scored[i].score_breakdown.quality)
            /\ InRange(res.scored[i].score_breakdown.risk_penalty)

\* C10 witness: a stock whose penalties add up to more than 100 and whose
\* events add up to more than 100 was scored
C10_Witness ==
    /\ res # NoArg
    /\ risk_sum(arg.stocks[1], arg.rules) > 100 * FP
    /\ event_raw(symbol_events("AAA", arg.events), arg.rules) > 100 * FP
    /\ res.scored[1].score_breakdown.risk_penalty = 100 * FP
    /\ res.scored[1].score_breakdown.future_events = 100 * FP

\* the weighted mean of the four positive factor scores over the sum of
\* their weights, less risk_penalty * (w_risk / 100), clamped to [0, 100]
FinalFormula ==
    LET f == res.locals
        w == arg.rules.weights
    IN  clamp(RoundDiv(f.profit_trend * w.profit_trend + f.valuation * w.valuation
                          + f.future_events * w.future_events + f.quality * w.quality,
                       w.profit_trend + w.valuation + w.future_events + w.quality)
                 - RoundDiv(f.risk_penalty * w.risk, 100),
              0, 100 * FP)

\* C11 as stated: the final_score of every scored stock is exactly the
\* clamped difference of the normalised factor mean and the risk term.
C11_Original ==
    res # NoArg => res.scored[1].final_score = FinalFormula

\* C11: the final_score of every scored stock is the clamped difference of
\* the factor mean, normalised by the sum of the four positive weights, and
\* risk_penalty * (w_risk / 100) subtracted outside that normalisation,
\* rounded to two decimals.
C11_FinalScoreRounded ==
    res # NoArg => res.scored[1].final_score = round2(FinalFormula)

\* C11 witness: a stock with a risk penalty was scored under weights that do
\* not sum to 100 and its score is strictly inside the range and has more
\* than two decimals before the rounding
C11_Witness ==
    /\ res # NoArg
    /\ res.locals.risk_penalty > 0
    /\ arg.rules.weights.risk > 0
    /\ positive_weight_sum(arg.rules) # 100
    /\ 0 < FinalFormula /\ FinalFormula < 100 * FP
    /\ FinalFormula # round2(FinalFormula)
    /\ res.scored[1].final_score = round2(FinalFormula)

\* the ScoredStock that score builds for the snapshot at position i of the
\* input of the first call
Scored(i) == score_one(arg.stocks[i], arg.events, arg.rules)

\* p maps the positions of the output one-to-one onto those of the input,
\* whose per-snapshot results are sc
IsPlacement(p, sc) ==
    /\ \A k \in 1..Len(res.scored) : res.scored[k] = sc[p[k]]
    /\ \A k, l \in 1..Len(res.scored) : k # l => p[k] # p[l]

\* C12: score returns exactly one ScoredStock per input snapshot, in
\* non-increasing order of final_score, and two stocks with equal final_score
\* keep the relative order they have in the input list.
C12_SortedStable ==
    "score" \in res.calls =>
        /\ Len(res.scored) = Len(arg.stocks)
        /\ \A k \in 1..(Len(res.scored) - 1) :
              res.scored[k].final_score >= res.scored[k + 1].final_score
        /\ LET sc == <<>> \o [i \in 1..Len(arg.stocks) |-> Scored(i)]
           IN  \E p \in [1..Len(arg.stocks) -> 1..Len(arg.stocks)] :
              /\ IsPlacement(p, sc)
              /\ \A k, l \in 1..Len(res.scored) :
                    (k < l /\ res.scored[k].final_score = res.scored[l].final_score)
                        => p[k] < p[l]

\* C12 witness: a list of three snapshots was scored in which two different
\* stocks tie and the third, placed first in the input, scores lower
C12_Witness ==
    /\ "score" \in res.calls
    /\ Len(arg.stocks) = MaxListLen
    /\ Scored(2).final_score = Scored(3).final_score
    /\ Scored(2).symbol # Scored(3).symbol
    /\ Scored(1).final_score < Scored(2).final_score
    /\ res.scored = <<Scored(2), Scored(3), Scored(1)>>

\* the part of a ScoredStock that does not come from its events
ClockFree(x) ==
    [symbol |-> x.symbol, market_cap_cr |-> x.market_cap_cr,
     profit_trend |-> x.score_breakdown.profit_trend,
     valuation |-> x.score_breakdown.valuation,
     quality |-> x.score_breakdown.quality,
     risk_penalty |-> x.score_breakdown.risk_penalty]

C14_ValuationPiecewise ==
    res # NoArg =>
        LET pe == arg.stocks[1].pe
            max_pe == arg.rules.filters.max_pe
        IN  res.locals.valuation =
                IF pe <= 20 THEN 100 * FP
                ELSE IF pe <= max_pe
                     THEN 100 * FP - RoundDiv((pe - 20) * 55 * FP, max_pe - 20)
                     ELSE Max(0, 45 * FP - 2 * FP * (pe - max_pe))

\* the events of the scored stock
StockEvents == symbol_events(arg.stocks[1].symbol, arg.events)

\* the configured weight of the type of an event, 0 if it has none
Weight(e) ==
    IF e.event_type \in DOMAIN arg.rules.event_weights
    THEN arg.rules.event_weights[e.event_type] ELSE 0

\* C15: a stock with no qualifying event (no event of its symbol, or only
\* events whose type has no positive weight) has future_events score 0 and
\* the reason "No recent qualifying events".
C15_NoQualifyingEvents ==
    (res # NoArg /\ \A k \in 1..Len(StockEvents) : Weight(StockEvents[k]) <= 0) =>
        /\ res.locals.future_events = 0
        /\ res.scored[1].score_breakdown.future_events = 0
        /\ \E k \in 1..Len(res.scored[1].reasons) :
              res.scored[1].reasons[k] = "No recent qualifying events"

\* weight * clamp(1 - age_days / 90, 0.35, 1.0) of an event, with
\* age_days = max(0, age)
Contribution(e) ==
    LET age_days == IF e.age_days < 0 THEN 0 ELSE e.age_days
        decayed == FP - RoundDiv(age_days * FP, 90)
    IN  Weight(e) * (IF decayed < (35 * FP) \div 100 THEN (35 * FP) \div 100
                     ELSE IF decayed > FP THEN FP ELSE decayed)

\* the sum of the contributions of the positively weighted events among
\* the first n events of the stock
ContributionSum(n) ==
    LET sum[k \in 0..n] ==
            IF k = 0 THEN 0
            ELSE sum[k - 1] + (IF Weight(StockEvents[k]) > 0
                               THEN Contribution(StockEvents[k]) ELSE 0)
    IN  sum[n]

\* C16: for a stock with at least one event the future_events score is the
\* sum over its positively weighted events of weight * clamp(1 - age_days /
\* 90, 0.35, 1.0), clamped to [0, 100], with age_days never negative; each
\* such event contributes between 35 % and 100 % of its weight, and the
\* score with one more event is never lower than the score without it.
C16_EventScore ==
    (res # NoArg /\ StockEvents # <<>>) =>
        /\ res.locals.future_events
              = Max(0, Min(100 * FP, ContributionSum(Len(StockEvents))))
        /\ \A k \in 1..Len(StockEvents) :
              Weight(StockEvents[k]) > 0 =>
                LET part == Weight(StockEvents[k]) * recency(StockEvents[k])
                IN  /\ 100 * part >= 35 * Weight(StockEvents[k]) * FP
                    /\ part <= Weight(StockEvents[k]) * FP
        /\ \A k \in 1..Len(StockEvents) :
              _future_event_score(SubSeq(StockEvents, 1, k - 1), arg.rules)
                  <= _future_event_score(SubSeq(StockEvents, 1, k), arg.rules)

\* C16 witness: a stock with two positively weighted events, one of them
\* older than 90 days, was scored below the ceiling
C16_Witness ==
    /\ res # NoArg
    /\ Len(StockEvents) = 2
    /\ \A k \in 1..2 : Weight(StockEvents[k]) > 0
    /\ \E k \in 1..2 : StockEvents[k].age_days > 90
    /\ res.locals.future_events = ContributionSum(2)
    /\ res.locals.future_events < 100 * FP

\* 50 [esm_flag] + 35 [governance_flag] + 25 [pledge above the maximum]
\* + 30 [prior profit positive and growth below -30 %]
PenaltySum ==
    LET s == arg.stocks[1]
    IN  (IF s.esm_flag THEN 50 ELSE 0)
        + (IF s.governance_flag THEN 35 ELSE 0)
        + (IF s.pledge_pct > arg.rules.filters.max_pledge_pct THEN 25 ELSE 0)
        + (IF /\ s.profit_prev_ttm_cr > 0
              /\ (s.profit_ttm_cr - s.profit_prev_ttm_cr) * 100
                    < -30 * s.profit_prev_ttm_cr
           THEN 30 ELSE 0)

\* C17: the risk penalty of every snapshot is min(100, 50 [esm_flag] + 35
\* [governance_flag] + 25 [pledge_pct > max_pledge_pct] + 30 [prior TTM
\* profit > 0 and YoY growth < -30 %]); the ESM flag alone gives exactly 50.
C17_RiskPenalty ==
    res # NoArg =>
        /\ res.locals.risk_penalty = Min(100, PenaltySum) * FP
        /\ res.scored[1].score_breakdown.risk_penalty = res.locals.risk_penalty
        /\ (PenaltySum = 50 /\ arg.stocks[1].esm_flag)
              => res.locals.risk_penalty = 50 * FP

\* C17 witness: a snapshot with the ESM flag, no governance flag, a pledge
\* below the maximum and no sharp profit drop was scored
C17_Witness ==
    /\ res # NoArg
    /\ arg.stocks[1].esm_flag
    /\ ~arg.stocks[1].governance_flag
    /\ arg.stocks[1].pledge_pct <= arg.rules.filters.max_pledge_pct
    /\ arg.stocks[1].profit_ttm_cr > arg.stocks[1].profit_prev_ttm_cr
    /\ res.locals.risk_penalty = 50 * FP

\* out consists of elements of in at strictly increasing positions
IsSubsequence(out, in) ==
    /\ Len(out) <= Len(in)
    /\ \E f \in [1..Len(out) -> 1..Len(in)] :
          /\ \A k \in 1..Len(out) : out[k] = in[f[k]]
          /\ \A k \in 1..(Len(out) - 1) : f[k] < f[k + 1]

\* C18: the output of the universe filter and the output of the quality
\* filter are subsequences of the input list (nothing added, duplicated or
\* reordered), and the calls leave their input as it was.
C18_FiltersGiveSubsequence ==
    /\ []("universe" \in res.calls => IsSubsequence(res.universe, arg.stocks))
    /\ []("quality" \in res.calls => IsSubsequence(res.passed, arg.stocks))
    /\ [][arg' = arg]_vars

\* C18 witness: both filters were applied to a list of three snapshots, the
\* quality filter dropped the middle one only and the universe filter kept
\* some but not all
C18_Witness ==
    /\ {"universe", "quality"} \subseteq res.calls
    /\ Len(arg.stocks) = MaxListLen
    /\ arg.stocks[1] # arg.stocks[3]
    /\ res.passed = <<arg.stocks[1], arg.stocks[3]>>
    /\ Len(res.universe) \in 1..2

\* min_market_cap_cr <= market_cap_cr <= max_market_cap_cr, and each
\* allow-set is empty or contains the snapshot's value
InUniverse(s) ==
    LET u == arg.rules.universe
    IN  /\ u.min_market_cap_cr <= s.market_cap_cr
        /\ s.market_cap_cr <= u.max_market_cap_cr
        /\ (u.exchanges = {} \/ s.exchange \in u.exchanges)
        /\ (u.sectors_allowlist = {} \/ s.sector \in u.sectors_allowlist)

\* C19: the universe filter keeps a snapshot exactly if its market cap lies
\* within the two bounds, both inclusive, and the exchange allow-set and
\* the sector allow-set are each empty or contain its value.
C19_UniverseFilter ==
    "universe" \in res.calls =>
        /\ res.universe = SelectSeq(arg.stocks, InUniverse)
        /\ (arg.rules.universe.exchanges = {} /\ arg.rules.universe.sectors_allowlist = {})
              => \A k \in 1..Len(arg.stocks) :
                    (/\ arg.rules.universe.min_market_cap_cr <= arg.stocks[k].market_cap_cr
                     /\ arg.stocks[k].market_cap_cr <= arg.rules.universe.max_market_cap_cr)
                        => \E l \in 1..Len(res.universe) : res.universe[l] = arg.stocks[k]

\* C19 witness: a snapshot with the maximum market cap was kept under an
\* empty exchange set and a sector set that contains its sector
C19_Witness ==
    /\ "universe" \in res.calls
    /\ Len(arg.stocks) = 1
    /\ arg.stocks[1].market_cap_cr = arg.rules.universe.max_market_cap_cr
    /\ arg.rules.universe.exchanges = {}
    /\ arg.rules.universe.sectors_allowlist = {arg.stocks[1].sector}
    /\ res.universe = arg.stocks

\* yoy >= min_profit_yoy_growth_pct under the zero-baseline rule, without
\* a division
GrowthAtLeastMin(s) ==
    LET min_yoy == arg.rules.filters.min_profit_yoy_growth_pct
    IN  IF s.profit_prev_ttm_cr <= 0
        THEN (IF s.profit_ttm_cr > 0 THEN 100 ELSE 0) >= min_yoy
        ELSE (s.profit_ttm_cr - s.profit_prev_ttm_cr) * 100
                >= min_yoy * s.profit_prev_ttm_cr

PassesQuality(s) ==
    LET f == arg.rules.filters
    IN  /\ ~(f.exclude_esm /\ s.esm_flag)
        /\ ~(f.exclude_loss_making /\ s.profit_ttm_cr <= 0)
        /\ s.profit_ttm_cr >= f.min_profit_ttm_cr
        /\ GrowthAtLeastMin(s)
        /\ s.pe <= f.max_pe

\* C20: the quality filter keeps a snapshot exactly if it is not an
\* excluded ESM stock, not an excluded loss maker, has at least the minimum
\* TTM profit, a growth of at least the minimum under the zero-baseline
\* rule and a PE of at most max_pe; the growth the filter computes is the
\* one the profit-trend scorer computes.
C20_QualityFilter ==
    "quality" \in res.calls =>
        /\ res.passed = SelectSeq(arg.stocks, PassesQuality)
        /\ \A k \in 1..Len(arg.stocks) :
              filter_yoy(arg.stocks[k]) = score_yoy(arg.stocks[k])

\* C20 witness: a snapshot with a prior TTM profit of zero or less, a
\* positive TTM profit equal to the minimum and a PE equal to max_pe was
\* kept
C20_Witness ==
    /\ "quality" \in res.calls
    /\ Len(arg.stocks) = 1
    /\ arg.stocks[1].profit_prev_ttm_cr <= 0
    /\ arg.stocks[1].profit_ttm_cr = arg.rules.filters.min_profit_ttm_cr
    /\ arg.stocks[1].profit_ttm_cr > 0
    /\ arg.stocks[1].pe = arg.rules.filters.max_pe
    /\ arg.rules.filters.min_profit_yoy_growth_pct > 0
    /\ res.passed = arg.stocks

\* the sorted output of the score engine for the snapshots and events of
\* the scan of thread t
ScanScored(t) ==
    score(_apply_quality_filters(
              _apply_universe_filters(frame[t].stocks, frame[t].rules),
              frame[t].rules),
          frame[t].events, frame[t].rules)

\* the rows are the first elements of scored, in order, ranked from 1
FirstOf(rows, scored) ==
    /\ Len(rows) <= Len(scored)
    /\ \A i \in 1..Len(rows) :
          /\ rows[i].rank = i
          /\ rows[i].symbol = scored[i].symbol
          /\ rows[i].final_score = scored[i].final_score
          /\ rows[i].score_breakdown = scored[i].score_breakdown

\* C29: the k recommendation rows of a completed run carry the ranks 1..k
\* once each, the row of rank i is the i-th element of the sorted output of
\* the score engine (the first k, none skipped), and final_score does not
\* increase with the rank.
C29_RanksFollowScores ==
    /\ [](\A r \in RunIds :
            runs[r].status = "completed" =>
                \A i \in 1..Len(recommendations[r]) :
                    /\ recommendations[r][i].rank = i
                    /\ recommendations[r][i].run_id = r
                    /\ i > 1 => recommendations[r][i - 1].final_score
                                    >= recommendations[r][i].final_score)
    /\ [][\A t \in Threads :
            (pc[t] = "scoring" /\ pc'[t] \in {"insert_recommendations", "complete_run"})
                => FirstOf(frame'[t].rec_rows, ScanScored(t))]_vars
    /\ [][\A t \in Threads :
            (pc[t] \in {"insert_recommendations", "complete_run"}
                /\ pc'[t] \in {"complete_run", "finish_done"})
                => recommendations'[frame[t].run_id]
                      = [j \in 1..Len(frame[t].rec_rows) |->
                            [frame[t].rec_rows[j] EXCEPT !.run_id = frame[t].run_id]]]_vars

\* C29 witness: a completed run persisted two rows with different scores
C29_Witness ==
    \E r \in RunIds :
        /\ runs[r].status = "completed"
        /\ Len(recommendations[r]) = 2
        /\ recommendations[r][1].final_score > recommendations[r][2].final_score

\* thread t is between the first tracker write of its scan
\* (update_scan("fetching_data", ...)) and the finish_scan of that scan
BetweenFirstWriteAndFinish(t) ==
    pc[t] \in {"get_stock_snapshots", "live_msg", "live_fetch", "live_prices",
               "fetching_events", "scoring", "insert_recommendations",
               "complete_run", "finish_done", "fail_run", "finish_failed"}

\* C28: at most one scan is between its first tracker write and its
\* finish_scan at a time, so the tracker writes of two scans never
\* interleave.
C28_OneScanWritesTracker ==
    \A t, u \in Threads :
        (BetweenFirstWriteAndFinish(t) /\ BetweenFirstWriteAndFinish(u)) => t = u

\* the symbols of a sequence of symbols or of entries
SymbolsOf(entries) == {entries[k].symbol : k \in 1..Len(entries)}

\* C21: get_cached_fundamentals(symbols, max_age) returns exactly the
\* requested symbols that have a row whose fetched_at parses and is at most
\* max_age days old, each with the values of its row; rows older than that,
\* rows with an unparsable timestamp and symbols outside the request are
\* left out.
C21_FreshRequestedEntries ==
    res.call.op = "get" =>
        LET c == res.call
            asked == {c.symbols[k] : k \in 1..Len(c.symbols)}
        IN  /\ DOMAIN c.result =
                  {sym \in asked :
                      \E row \in res.stock_cache :
                          /\ row.symbol = sym
                          /\ row.fetched_at.parses
                          /\ c.now - row.fetched_at.at <= c.max_age_days}
            /\ \A sym \in DOMAIN c.result :
                  \E row \in res.stock_cache :
                      /\ row.symbol = sym
                      /\ c.result[sym] = [symbol |-> sym, fund |-> row.fund,
                                          metrics |-> row.metrics]

\* a read with max_age 90 that returns a row aged exactly 90 days, leaves out
\* a requested row aged 91 days and leaves out a fresh row nobody asked for
C21_Witness ==
    /\ res.call.op = "get"
    /\ res.call.max_age_days = CACHE_MAX_AGE_DAYS
    /\ res.call.symbols = <<"2", "1">>
    /\ DOMAIN res.call.result = {"2"}
    /\ \E row \in res.stock_cache :
          row.symbol = "2" /\ row.fetched_at.parses
          /\ res.call.now - row.fetched_at.at = CACHE_MAX_AGE_DAYS
    /\ \E row \in res.stock_cache :
          row.symbol = "1" /\ row.fetched_at.parses
          /\ res.call.now - row.fetched_at.at = CACHE_MAX_AGE_DAYS + 1
    /\ \E row \in res.stock_cache :
          row.symbol = "3" /\ row.fetched_at.parses
          /\ res.call.now - row.fetched_at.at <= 1

\* C22: the cache holds at most one row per symbol; after an upsert the row
\* of each named symbol carries the values of the last entry given for it
\* and the time of the write as fetched_at; the rows of the symbols an
\* upsert does not name are the same before and after it.
C22_UpsertLatestWins ==
    /\ [](/\ \A r1, r2 \in res.stock_cache : r1.symbol = r2.symbol => r1 = r2
          /\ res.call.op = "upsert" =>
                \A k \in 1..Len(res.call.entries) :
                    (\A j \in (k + 1)..Len(res.call.entries) :
                        res.call.entries[j].symbol # res.call.entries[k].symbol)
                    => [symbol |-> res.call.entries[k].symbol,
                        fund |-> res.call.entries[k].fund,
                        metrics |-> res.call.entries[k].metrics,
                        fetched_at |-> [parses |-> TRUE, at |-> res.call.now]]
                          \in res.stock_cache)
    /\ [][(res' # res /\ res'.call.op = "upsert") =>
            \A sym \in {"1", "2", "3"} \ SymbolsOf(res'.call.entries) :
                {row \in res.stock_cache : row.symbol = sym}
                  = {row \in res'.stock_cache : row.symbol = sym}]_vars

\* an upsert naming one symbol twice with different values, a day after the
\* start, over a table that holds an older row of another symbol
C22_Witness ==
    /\ res.call.op = "upsert"
    /\ Len(res.call.entries) = 2
    /\ res.call.entries[1].symbol = res.call.entries[2].symbol
    /\ res.call.entries[1] # res.call.entries[2]
    /\ res.call.now > StartDay
    /\ \E row \in res.stock_cache :
          /\ row.symbol \notin SymbolsOf(res.call.entries)
          /\ row.fetched_at.parses
          /\ row.fetched_at.at < res.call.now

\* the number of entries scan t has fetched that the cache table lacks
Unpersisted(t) ==
    Cardinality(unpersisted(res.stock_cache, frame[t].new_cache_entries))

\* C23 as stated: wherever the loop stands, at most 19 fetched entries are
\* not in the cache, and a crash loses at most 19.
C23_Original ==
    \A t \in Threads :
        /\ pc[t] \in {"fetch", "batch"} => Unpersisted(t) <= BatchSize - 1
        /\ res.lost[t] <= BatchSize - 1

\* C23: a batch is written when the number of fetched entries reaches a
\* multiple of 20, so at the start of every per-symbol fetch at most 19
\* fetched entries are not in the cache; between the return of a fetch and
\* the batch write that follows it there are at most 20, and a crash loses
\* at most 20.
C23_BatchOfTwenty ==
    /\ [](\A t \in Threads :
            /\ pc[t] \in {"fetch", "persist"} => Unpersisted(t) <= BatchSize - 1
            /\ pc[t] = "batch" => Unpersisted(t) <= BatchSize
            /\ res.lost[t] <= BatchSize)
    /\ [][\A t \in Threads :
            (/\ pc[t] = "batch"
             /\ pc'[t] \in {"fetch", "persist"}
             /\ Len(frame[t].new_cache_entries) % BatchSize = 0
             /\ frame[t].new_cache_entries # <<>>)
            => unpersisted(res'.stock_cache, frame[t].new_cache_entries) = {}]_vars

\* a crash after the twentieth fetch returned and before its batch was
\* written: twenty entries are lost
C23_Witness == \E t \in Threads : pc[t] = "crashed" /\ res.lost[t] = BatchSize

\* the cache holds a row of the symbol that is fresh now
HasFreshEntry(sym) ==
    \E row \in res.stock_cache :
        row.symbol = sym /\ is_fresh(row, CACHE_MAX_AGE_DAYS, arg.now)

\* C24: the per-symbol fundamentals fetch is invoked only for a symbol that
\* has no fresh entry in the cache, so a symbol an earlier scan fetched and
\* cached within the last 90 days is not fetched again.
C24_FetchOnlyStale ==
    [][\A t \in Threads :
          (pc[t] = "fetch" /\ pc'[t] = "batch")
          => ~HasFreshEntry(frame[t].stale[frame[t].i])]_vars

\* C25: the current_price of every snapshot a scan returns is the live
\* price of that scan, never a price an earlier scan stored in the cache
\* (left aside are the rows the cache held from the start, with prices of
\* before StartDay, and the symbols the scan fetched itself: the price must
\* not come from a row another scan wrote).
C25_SnapshotPriceIsLive ==
    [][\A t \in Threads :
          (pc[t] = "prices" /\ pc'[t] = "returned")
          => \A k \in 1..Len(frame'[t].out) :
                \/ frame'[t].out[k].current_price = arg.now
                \/ frame'[t].out[k].current_price < StartDay
                \/ \E j \in 1..Len(frame[t].fetched) :
                      frame[t].fetched[j] = frame'[t].out[k].symbol]_vars

\* the symbols of scan t whose fetch returned an entry
FetchedOk(t) == SymbolsOf(frame[t].new_cache_entries)

\* the symbol had a fresh cache entry when scan t read the cache
WasCached(t, sym) ==
    \A j \in 1..Len(frame[t].stale) : frame[t].stale[j] # sym

\* C26: a fetch that returns no entry does not end the loop: every stale
\* symbol is tried, in order, and the scan returns, in the order of the
\* symbols file, one snapshot for each symbol that had a fresh cache entry or
\* whose fetch succeeded, and none for a symbol whose fetch failed.
C26_FailedFetchSkipsOneSymbol ==
    \A t \in Threads :
        /\ pc[t] \in {"persist", "prices", "returned"}
           => frame[t].fetched = frame[t].stale
        /\ pc[t] = "returned"
           => LET wanted == {k \in 1..Len(frame[t].symbols) :
                                \/ WasCached(t, frame[t].symbols[k])
                                \/ frame[t].symbols[k] \in FetchedOk(t)}
              IN  /\ Len(frame[t].out) = Cardinality(wanted)
                  /\ \A k \in 1..Len(frame[t].out) :
                        \E w \in wanted :
                            /\ frame[t].out[k].symbol = frame[t].symbols[w]
                            /\ Cardinality({v \in wanted : v <= w}) = k

\* a scan has returned after the fetch of one symbol failed and the fetch of
\* a later symbol succeeded; the later symbol has a snapshot, the failed one
\* has none
C26_Witness ==
    \E t \in Threads :
        /\ pc[t] = "returned"
        /\ \E j, k \in 1..Len(frame[t].fetched) :
              /\ j < k
              /\ frame[t].fetched[j] \notin FetchedOk(t)
              /\ frame[t].fetched[k] \in FetchedOk(t)
              /\ \E n \in 1..Len(frame[t].out) :
                    frame[t].out[n].symbol = frame[t].fetched[k]
              /\ \A n \in 1..Len(frame[t].out) :
                    frame[t].out[n].symbol # frame[t].fetched[j]

\* C27: every read and every write of the tracker runs under the one lock:
\* at most one thread is inside a with block, the tracker changes only by
\* an assignment of the thread that holds the lock, and the dict
\* get_scan_status returns is the tracker as it was between two whole
\* writes, never a mixture of fields from a write in progress.
C27_ReadsSeeWholeWrites ==
    /\ [](\A p, q \in TrackerProcs :
            (pc[p] = "locked" /\ pc[q] = "locked") => p = q)
    /\ [][status' # status =>
            \E t \in Threads : pc[t] = "locked" /\ res.lock = t]_vars
    /\ [][(pc[Poll] = "locked" /\ pc'[Poll] = "idle") =>
            frame[Poll].seen \in {to_dict(w) : w \in res.whole}]_vars

\* get_scan_status has read every field while one scan waits for the lock
\* with its next update and the other is in its fetch loop
C27_Witness ==
    /\ pc[Poll] = "locked"
    /\ frame[Poll].f = Len(ReadFields)
    /\ frame[Poll].seen.running
    /\ frame[Poll].seen.phase = "fetching_fundamentals"
    /\ frame[Poll].seen.current = 1
    /\ frame[Poll].seen.pct = 50
    /\ \A t \in Threads : pc[t] = "call" /\ frame[t].k > 1

\* C30: whenever no write is in progress, 0 <= current <= max(total, 1) and
\* the reported pct is within 0..100, also with two overlapping scans and
\* with scans of the mock provider, which never calls start_scan; when the
\* last whole write was finish_scan, current = total and running is false.
C30_CurrentWithinTotal ==
    res.lock = "free" =>
        /\ 0 <= status.current
        /\ status.current <= Max(status.total, 1)
        /\ pct(status) \in 0..100
        /\ res.last = "finish_scan" =>
              (status.current = status.total /\ ~status.running)
====
